---- MODULE Spec2Model ----
(***************************************************************************)
(* Model of the Mach-O core-file process plug-in (ProcessMachCore.cpp):    *)
(* the VM -> file-offset index and the VM -> permissions index built by    *)
(* DoLoadCore, the image discovery sweep, the sparse memory read           *)
(* (DoReadMemory) and the region query (GetMemoryRegionInfo).              *)
(*                                                                         *)
(* The plug-in's registration (Initialize), DoLoadCore followed line by    *)
(* line, and two functions of the 'source' commands                        *)
(* (CommandObjectSource.cpp: DumpLinesInSymbolContexts and                 *)
(* SourceInfo::operator <) are modelled as well.                           *)
(*                                                                         *)
(* Addresses are unsigned integers of AddrBits bits; every address         *)
(* computation is taken modulo 2^AddrBits, as lldb::addr_t arithmetic is   *)
(* taken modulo 2^64.  The core file's contents are modelled by position:  *)
(* the byte copied from file offset o is represented by o itself, so a     *)
(* read buffer records where each of its bytes came from.                  *)
(***************************************************************************)
EXTENDS Integers, Sequences, FiniteSets, TLC

VARIABLES
    m_core_module_sp,     \* TRUE when the core module exists
    core_objfile,         \* the object file of the core module
    corefile_preference,  \* GetCorefilePreference(): "kernel" or "user"
    m_core_aranges,       \* VMRangeToFileOffset: sequence of entries
    m_core_range_infos,   \* VMRangeToPermissions: sequence of entries
    m_dyld_addr,
    m_mach_kernel_addr,
    m_dyld_plugin_name,
    load_state,           \* "candidate", then "loaded" or "failed" once DoLoadCore has run
    m_thread_list,        \* the thread ids of the process's thread list
    result,               \* what the last operation returned
    g_once_flag,          \* the std::once_flag of Initialize
    plugin_registrations, \* how many times RegisterPlugin has run
    initialize_pc,        \* where each thread stands in Initialize
    initialize_calls,     \* how many calls of Initialize each thread has made
    load_step,            \* where a DoLoadCore that is followed line by line stands
    source_cmd,           \* the last call made on the 'source' command objects
    destroyed             \* TRUE once DoDestroy has been called on the session

\* The variables of a ProcessMachCore object and of its caller.
session_vars ==
    << m_core_module_sp, core_objfile, corefile_preference, m_core_aranges,
       m_core_range_infos, m_dyld_addr, m_mach_kernel_addr,
       m_dyld_plugin_name, load_state, m_thread_list, result >>

\* The variables of the plug-in registration.
initialize_vars ==
    << g_once_flag, plugin_registrations, initialize_pc, initialize_calls >>

\* The locals of a DoLoadCore that is followed line by line.
load_vars == << load_step >>

\* The variables of the 'source' commands (CommandObjectSource.cpp).
source_vars == << source_cmd >>

\* The variables the operations of a ProcessMachCore object, each taken as
\* one step, leave alone.
process_vars == << initialize_vars, load_vars, source_vars, destroyed >>

vars == << session_vars, process_vars >>

-----------------------------------------------------------------------------
(* Bounds of the model *)

AddrBits == 29
MaxSections == 2
MaxReadSize == 3
MaxThreads == 2
MaxInitThreads == 3
MaxInitCalls == 2
MaxSweepPasses == 3
MaxCallbackCalls == 1
MaxContexts == 3
MaxNumLines == 2

-----------------------------------------------------------------------------
(* Address arithmetic (lldb::addr_t, size_t) *)

AddrSpace == 2 ^ AddrBits

LLDB_INVALID_ADDRESS == AddrSpace - 1

AddrAdd(a, b) == (a + b) % AddrSpace

AddrSub(a, b) == (a - b + AddrSpace) % AddrSpace

Min(a, b) == IF a < b THEN a ELSE b

-----------------------------------------------------------------------------
(* Program constants *)

PageStep == 4096

SizeofMachHeader == 28

ePermissionsWritable == 1

ePermissionsReadable == 2

ePermissionsExecutable == 4

\* A 32-bit header field is the tuple of its four bytes, most significant first.
MH_MAGIC == << 254, 237, 250, 206 >>

MH_MAGIC_64 == << 254, 237, 250, 207 >>

MH_CIGAM == << 206, 250, 237, 254 >>

MH_CIGAM_64 == << 207, 250, 237, 254 >>

MH_DYLINKER == << 0, 0, 0, 7 >>

MH_EXECUTE == << 0, 0, 0, 2 >>

MH_DYLDLINK_Set(flags) == (flags[4] \div 4) % 2 = 1

ByteSwap_32(w) == << w[4], w[3], w[2], w[1] >>

DyldPluginName == "dyld-macosx"

KernelPluginName == "darwin-kernel"

-----------------------------------------------------------------------------
(* RangeMap.h: Range, RangeData, RangeDataVector *)

GetRangeEnd(r) == AddrAdd(r.base, r.size)

SetRangeEnd(r, end) ==
    [r EXCEPT !.size = IF end > r.base THEN end - r.base ELSE 0]

Contains(r, a) == r.base <= a /\ a < GetRangeEnd(r)

\* Index of the last entry, 0 when there is none.
Back(entries) == Len(entries)

\* Insertion after every entry whose base is not greater: the sort is stable.
RECURSIVE InsertByBase(_, _)
InsertByBase(sorted, e) ==
    IF sorted = << >> THEN << e >>
    ELSE IF sorted[Len(sorted)].base <= e.base THEN sorted \o << e >>
    ELSE InsertByBase(SubSeq(sorted, 1, Len(sorted) - 1), e)
             \o << sorted[Len(sorted)] >>

RECURSIVE Sort(_)
Sort(entries) ==
    IF entries = << >> THEN << >>
    ELSE InsertByBase(Sort(SubSeq(entries, 1, Len(entries) - 1)),
                      entries[Len(entries)])

\* Index of the entry that contains a, 0 when there is none.
FindEntryThatContains(entries, a) ==
    LET hits == { i \in 1..Len(entries) : Contains(entries[i], a) }
    IN  IF hits = {} THEN 0 ELSE CHOOSE i \in hits : \A j \in hits : i <= j

\* Index of the entry that contains a, else of the entry with the smallest
\* base above a, 0 when there is none.
FindEntryThatContainsOrFollows(entries, a) ==
    LET hit == FindEntryThatContains(entries, a)
        above == { i \in 1..Len(entries) : entries[i].base > a }
    IN  IF hit # 0 THEN hit
        ELSE IF above = {} THEN 0
        ELSE CHOOSE i \in above :
                 \A j \in above : entries[i].base < entries[j].base
                                  \/ (entries[i].base = entries[j].base /\ i <= j)

-----------------------------------------------------------------------------
(* ObjectFile *)

\* ObjectFile::CopyData: the number of bytes the file holds at offset, at most n.
CopyData(objfile, offset, n) ==
    IF offset >= objfile.data_size THEN 0
    ELSE Min(n, objfile.data_size - offset)

\* The bytes CopyData puts into the buffer, each named by its file offset.
CopiedBytes(offset, got) == [k \in 1..got |-> offset + k - 1]

NoHeader == [magic |-> << 0, 0, 0, 0 >>, filetype |-> << 0, 0, 0, 0 >>,
             flags |-> << 0, 0, 0, 0 >>]

\* The mach_header a buffer of sizeof(mach_header) bytes holds.
HeaderOf(objfile, buf) ==
    IF /\ Len(buf) = SizeofMachHeader
       /\ buf[1] \in DOMAIN objfile.headers
       /\ \A k \in 1..Len(buf) : buf[k] = buf[1] + k - 1
    THEN objfile.headers[buf[1]]
    ELSE NoHeader

-----------------------------------------------------------------------------
(* ProcessMachCore::DoReadMemory *)

NoError == [msg |-> "", addr |-> 0]

UnmappedReadError(curr_addr) ==
    [msg |-> "core file does not contain", addr |-> curr_addr]

\* The error is set whenever the loop meets an unmapped address.
ReadMissError_AnyMiss(error, bytes_read, curr_addr) ==
    UnmappedReadError(curr_addr)

\* Lines 555-557: the error is set only if no byte was read.
ReadMissError(error, bytes_read, curr_addr) ==
    IF bytes_read = 0 THEN UnmappedReadError(curr_addr) ELSE error

\* The offset of curr_addr is taken from the VM base of the index, not of
\* the entry.
EntryFileOffset_NoEntryBase(entry, curr_addr) ==
    AddrAdd(entry.data.base, curr_addr)

\* Lines 544-547: the file offset of curr_addr within its entry.
EntryFileOffset(entry, curr_addr) ==
    AddrAdd(entry.data.base, AddrSub(curr_addr, entry.base))

\* The iteration asks for all the bytes still wanted, past the entry's end.
BytesToRead_PastEntryEnd(entry, curr_addr, size, bytes_read) ==
    size - bytes_read

\* Lines 545-546: how many bytes this iteration asks for.
BytesToRead(entry, curr_addr, size, bytes_read) ==
    Min(size - bytes_read, AddrSub(GetRangeEnd(entry), curr_addr))

\* Lines 537-560: the loop from the state (bytes_read, buf, error); the
\* result counts the iterations the loop made.
RECURSIVE ReadLoop(_, _, _, _, _, _, _)
ReadLoop(aranges, objfile, addr, size, bytes_read, buf, error) ==
    IF ~(bytes_read < size)
    THEN [bytes_read |-> bytes_read, buf |-> buf, error |-> error,
          iterations |-> 0]
    ELSE
      LET curr_addr == AddrAdd(addr, bytes_read)
          i == FindEntryThatContains(aranges, curr_addr)
      IN  IF i # 0
          THEN LET offset == EntryFileOffset(aranges[i], curr_addr)
                   bytes_to_read ==
                       BytesToRead(aranges[i], curr_addr, size, bytes_read)
                   curr_bytes_read == CopyData(objfile, offset, bytes_to_read)
               IN  IF curr_bytes_read = 0
                   THEN [bytes_read |-> bytes_read, buf |-> buf,
                         error |-> error, iterations |-> 1]
                   ELSE LET rest == ReadLoop(aranges, objfile, addr, size,
                                             bytes_read + curr_bytes_read,
                                             buf \o CopiedBytes(offset,
                                                               curr_bytes_read),
                                             error)
                        IN  [rest EXCEPT !.iterations = @ + 1]
          ELSE [bytes_read |-> bytes_read, buf |-> buf,
                error |-> ReadMissError(error, bytes_read, curr_addr),
                iterations |-> 1]

DoReadMemory(aranges, objfile, addr, size, error) ==
    IF objfile.exists
    THEN ReadLoop(aranges, objfile, addr, size, 0, << >>, error)
    ELSE [bytes_read |-> 0, buf |-> << >>, error |-> error, iterations |-> 0]

-----------------------------------------------------------------------------
(* ProcessMachCore::GetDynamicLoaderAddress *)

\* Only the magic is byte-swapped; filetype and flags stay as read.
SwapHeader_MagicOnly(header) ==
    IF header.magic = MH_CIGAM \/ header.magic = MH_CIGAM_64
    THEN [header EXCEPT !.magic = ByteSwap_32(header.magic)]
    ELSE header

\* Lines 174-184.
SwapHeader(header) ==
    IF header.magic = MH_CIGAM \/ header.magic = MH_CIGAM_64
    THEN [magic |-> ByteSwap_32(header.magic),
          filetype |-> ByteSwap_32(header.filetype),
          flags |-> ByteSwap_32(header.flags)]
    ELSE header

\* d is [dyld |-> m_dyld_addr, kernel |-> m_mach_kernel_addr]; the result adds
\* the value returned.
GetDynamicLoaderAddress(aranges, objfile, d, addr) ==
    LET r == DoReadMemory(aranges, objfile, addr, SizeofMachHeader, NoError)
        header == SwapHeader(HeaderOf(objfile, r.buf))
        miss == [dyld |-> d.dyld, kernel |-> d.kernel, hit |-> FALSE]
    IN  IF r.bytes_read # SizeofMachHeader THEN miss
        ELSE IF header.magic = MH_MAGIC \/ header.magic = MH_MAGIC_64
        THEN IF header.filetype = MH_DYLINKER
             THEN [dyld |-> addr, kernel |-> d.kernel, hit |-> TRUE]
             ELSE IF header.filetype = MH_EXECUTE
                     /\ ~MH_DYLDLINK_Set(header.flags)
             THEN [dyld |-> d.dyld, kernel |-> addr, hit |-> TRUE]
             ELSE miss
        ELSE miss

-----------------------------------------------------------------------------
(* ProcessMachCore::DoLoadCore *)

\* The section continues the last entry in VM; the file ranges are not compared.
CanCombine_VMOnly(last_entry, range_entry) ==
    GetRangeEnd(last_entry) = range_entry.base

\* The section's file range is compared with the start of the last entry's
\* file range, not with its end.
CanCombine_FileBase(last_entry, range_entry) ==
    /\ GetRangeEnd(last_entry) = range_entry.base
    /\ last_entry.data.base = range_entry.data.base

\* Lines 297-299: the section continues the last entry in VM and in the file.
CanCombine(last_entry, range_entry) ==
    /\ GetRangeEnd(last_entry) = range_entry.base
    /\ GetRangeEnd(last_entry.data) = range_entry.data.base

\* Lines 301-302.
Combine(last_entry, range_entry) ==
    [SetRangeEnd(last_entry, GetRangeEnd(range_entry)) EXCEPT
        !.data = SetRangeEnd(last_entry.data, GetRangeEnd(range_entry.data))]

\* Lines 313-315.
SectionPermissions(section) ==
    IF section.permissions = 0
    THEN ePermissionsReadable + ePermissionsExecutable
    ELSE section.permissions

\* The flag tells whether the last two sections are in order: a section
\* that is not below its predecessor sets it again.
StillSorted_LastOnly(ranges_are_sorted, vm_addr, section_vm_addr) ==
    ~(vm_addr > section_vm_addr)

\* Lines 286-287.
StillSorted(ranges_are_sorted, vm_addr, section_vm_addr) ==
    IF vm_addr > section_vm_addr THEN FALSE ELSE ranges_are_sorted

\* A section is merged into the last entry only while ranges_are_sorted
\* still holds.
AddSection_MergeWhileSorted(st, section) ==
    IF section.null THEN st
    ELSE
      LET range_entry ==
              [base |-> section.vm_addr, size |-> section.byte_size,
               data |-> [base |-> section.file_offset,
                         size |-> section.file_size]]
          sorted ==
              StillSorted(st.ranges_are_sorted, st.vm_addr, section.vm_addr)
          last == Back(st.aranges)
          aranges ==
              IF sorted /\ last # 0
                 /\ CanCombine(st.aranges[last], range_entry)
              THEN [st.aranges EXCEPT
                       ![last] = Combine(st.aranges[last], range_entry)]
              ELSE Append(st.aranges, range_entry)
          info == [base |-> section.vm_addr, size |-> section.byte_size,
                   data |-> SectionPermissions(section)]
      IN  [aranges |-> aranges,
           infos |-> Append(st.infos, info),
           ranges_are_sorted |-> sorted,
           vm_addr |-> section.vm_addr]

\* Lines 277-318: one iteration of the loop over the sections.
AddSection(st, section) ==
    IF section.null THEN st
    ELSE
      LET range_entry ==
              [base |-> section.vm_addr, size |-> section.byte_size,
               data |-> [base |-> section.file_offset,
                         size |-> section.file_size]]
          last == Back(st.aranges)
          aranges ==
              IF last # 0 /\ CanCombine(st.aranges[last], range_entry)
              THEN [st.aranges EXCEPT
                       ![last] = Combine(st.aranges[last], range_entry)]
              ELSE Append(st.aranges, range_entry)
          info == [base |-> section.vm_addr, size |-> section.byte_size,
                   data |-> SectionPermissions(section)]
      IN  [aranges |-> aranges,
           infos |-> Append(st.infos, info),
           ranges_are_sorted |->
               StillSorted(st.ranges_are_sorted, st.vm_addr, section.vm_addr),
           vm_addr |-> section.vm_addr]

\* Lines 273-319.
RECURSIVE AddSections(_, _, _)
AddSections(st, sections, i) ==
    IF i > Len(sections) THEN st
    ELSE AddSections(AddSection(st, sections[i]), sections, i + 1)

\* Lines 320-324.
SortIfNeeded(st) ==
    IF ~st.ranges_are_sorted
    THEN [st EXCEPT !.aranges = Sort(st.aranges), !.infos = Sort(st.infos)]
    ELSE st

\* Lines 341-346: at most n iterations of the inner loop; st holds the loop
\* variable section_vm_addr and the two addresses found so far.
RECURSIVE SweepPages(_, _, _, _, _)
SweepPages(aranges, objfile, st, section_vm_addr_end, n) ==
    IF n > 0 /\ st.section_vm_addr < section_vm_addr_end
    THEN SweepPages(aranges, objfile,
                    [section_vm_addr |-> AddrAdd(st.section_vm_addr, PageStep),
                     d |-> GetDynamicLoaderAddress(aranges, objfile, st.d,
                                                   st.section_vm_addr)],
                    section_vm_addr_end, n - 1)
    ELSE st

\* Lines 341-346: the inner loop, run to its end sixteen iterations at a time
\* (the evaluation is kept shallow; the iterations are those of the loop).
RECURSIVE SweepLoop(_, _, _, _)
SweepLoop(aranges, objfile, st, section_vm_addr_end) ==
    IF st.section_vm_addr < section_vm_addr_end
    THEN SweepLoop(aranges, objfile,
                   SweepPages(aranges, objfile, st, section_vm_addr_end, 16),
                   section_vm_addr_end)
    ELSE st.d

\* Lines 338-346: the pages of one entry.
SweepEntry(aranges, objfile, d, entry) ==
    SweepLoop(aranges, objfile, [section_vm_addr |-> entry.base, d |-> d],
              GetRangeEnd(entry))

\* Lines 335-347.
RECURSIVE SweepEntries(_, _, _, _)
SweepEntries(aranges, objfile, d, i) ==
    IF i > Len(aranges) THEN d
    ELSE SweepEntries(aranges, objfile,
                      SweepEntry(aranges, objfile, d, aranges[i]), i + 1)

\* Lines 326-348.
Sweep(aranges, objfile, d) ==
    IF d.dyld = LLDB_INVALID_ADDRESS \/ d.kernel = LLDB_INVALID_ADDRESS
    THEN SweepEntries(aranges, objfile, d, 1)
    ELSE d

\* The kernel address is replaced by whatever the search returned.
RefineKernel_AlwaysOverwrite(d, better_kernel_address) ==
    IF d.kernel # LLDB_INVALID_ADDRESS
    THEN [d EXCEPT !.kernel = better_kernel_address]
    ELSE d

\* Lines 351-385: better_kernel_address is what SearchForDarwinKernel returns.
RefineKernel(d, better_kernel_address) ==
    IF d.kernel # LLDB_INVALID_ADDRESS
       /\ better_kernel_address # LLDB_INVALID_ADDRESS
    THEN [d EXCEPT !.kernel = better_kernel_address]
    ELSE d

\* The preference is not consulted: dyld is taken whenever it was found.
SelectPlugin_DyldFirst(preference, d, plugin_name) ==
    IF d.dyld # LLDB_INVALID_ADDRESS THEN DyldPluginName
    ELSE IF d.kernel # LLDB_INVALID_ADDRESS THEN KernelPluginName
    ELSE plugin_name

\* The preferred image is taken when it was found, the other one never.
SelectPlugin_NoFallback(preference, d, plugin_name) ==
    IF preference = "kernel"
    THEN IF d.kernel # LLDB_INVALID_ADDRESS THEN KernelPluginName
         ELSE plugin_name
    ELSE IF d.dyld # LLDB_INVALID_ADDRESS THEN DyldPluginName
         ELSE plugin_name

\* Lines 388-419.
SelectPlugin(preference, d, plugin_name) ==
    IF preference = "kernel"
    THEN IF d.kernel # LLDB_INVALID_ADDRESS THEN KernelPluginName
         ELSE IF d.dyld # LLDB_INVALID_ADDRESS THEN DyldPluginName
         ELSE plugin_name
    ELSE IF d.dyld # LLDB_INVALID_ADDRESS THEN DyldPluginName
         ELSE IF d.kernel # LLDB_INVALID_ADDRESS THEN KernelPluginName
         ELSE plugin_name

\* The section list is checked before the thread contexts.
LoadError_SectionsBeforeThreads(module_sp, objfile) ==
    IF ~module_sp THEN "invalid core module"
    ELSE IF ~objfile.exists THEN "invalid core object file"
    ELSE IF ~objfile.has_section_list THEN "core file has no sections"
    ELSE IF Len(objfile.sections) = 0 THEN "core file has no sections"
    ELSE IF objfile.num_thread_contexts = 0
    THEN "core file doesn't contain any LC_THREAD load commands, or the LC_THREAD architecture is not supported in this lldb"
    ELSE ""

\* Lines 232-263: the error DoLoadCore returns before it touches any state.
LoadError(module_sp, objfile) ==
    IF ~module_sp THEN "invalid core module"
    ELSE IF ~objfile.exists THEN "invalid core object file"
    ELSE IF objfile.num_thread_contexts = 0
    THEN "core file doesn't contain any LC_THREAD load commands, or the LC_THREAD architecture is not supported in this lldb"
    ELSE IF ~objfile.has_section_list THEN "core file has no sections"
    ELSE IF Len(objfile.sections) = 0 THEN "core file has no sections"
    ELSE ""

\* Lines 273-324: the two indices after the loop and the sort.
BuildIndices(aranges, infos, sections) ==
    SortIfNeeded(AddSections([aranges |-> aranges, infos |-> infos,
                              ranges_are_sorted |-> TRUE, vm_addr |-> 0],
                             sections, 1))

NoResult ==
    [op |-> "none", addr |-> 0, size |-> 0, bytes_read |-> 0, buf |-> << >>,
     error |-> NoError, base |-> 0, end |-> 0, readable |-> "dont_know",
     writable |-> "dont_know", executable |-> "dont_know", walk |-> << >>,
     value |-> 0, ok |-> FALSE]

\* The session is single-threaded: an operation starts when no call is pending.
Idle == result.op = "none"

\* Lines 226-431 on a session in the state before; a load that succeeds
\* leaves the session in the state after.
DoLoadCoreFrom(before, after, better_kernel_address) ==
    /\ Idle
    /\ load_state = before
    /\ LET err == LoadError(m_core_module_sp, core_objfile)
       IN  IF err # ""
           THEN /\ load_state' = "failed"
                /\ result' = [NoResult EXCEPT !.op = "load",
                                 !.error = [msg |-> err, addr |-> 0]]
                /\ UNCHANGED << m_core_aranges, m_core_range_infos, m_dyld_addr,
                                m_mach_kernel_addr, m_dyld_plugin_name >>
           ELSE
             LET st == BuildIndices(m_core_aranges, m_core_range_infos,
                                    core_objfile.sections)
                 found == Sweep(st.aranges, core_objfile,
                                [dyld |-> m_dyld_addr,
                                 kernel |-> m_mach_kernel_addr, hit |-> FALSE])
                 d == RefineKernel(found, better_kernel_address)
             IN  /\ load_state' = after
                 /\ m_core_aranges' = st.aranges
                 /\ m_core_range_infos' = st.infos
                 /\ m_dyld_addr' = d.dyld
                 /\ m_mach_kernel_addr' = d.kernel
                 /\ m_dyld_plugin_name' =
                        SelectPlugin(corefile_preference, d, m_dyld_plugin_name)
                 /\ result' = [NoResult EXCEPT !.op = "load"]
    /\ UNCHANGED << m_core_module_sp, core_objfile, corefile_preference,
                    m_thread_list >>
    /\ UNCHANGED process_vars

\* The load of a session that has not been loaded.
DoLoadCore(better_kernel_address) ==
    DoLoadCoreFrom("candidate", "loaded", better_kernel_address)

\* A second call of DoLoadCore on a session that has been loaded.
DoLoadCoreAgain(better_kernel_address) ==
    DoLoadCoreFrom("loaded", "reloaded", better_kernel_address)

-----------------------------------------------------------------------------
(* ProcessMachCore::ReadMemory *)

ReadMemory(addr, size) ==
    /\ Idle
    /\ m_core_module_sp
    /\ LET r == DoReadMemory(m_core_aranges, core_objfile, addr, size, NoError)
       IN  result' = [NoResult EXCEPT !.op = "read", !.addr = addr,
                         !.size = size, !.bytes_read = r.bytes_read,
                         !.buf = r.buf, !.error = r.error,
                         !.value = r.iterations]
    /\ UNCHANGED << m_core_module_sp, core_objfile, corefile_preference,
                    m_core_aranges, m_core_range_infos, m_dyld_addr,
                    m_mach_kernel_addr, m_dyld_plugin_name, load_state,
                    m_thread_list >>
    /\ UNCHANGED process_vars

-----------------------------------------------------------------------------
(* ProcessMachCore::GetMemoryRegionInfo *)

PermissionTest(permissions, bit) ==
    IF (permissions \div bit) % 2 = 1 THEN "yes" ELSE "no"

\* Lines 575-583: load_addr lies in the entry.
EntryRegion(entry, load_addr) ==
    [base |-> entry.base, end |-> GetRangeEnd(entry),
     readable |-> PermissionTest(entry.data, ePermissionsReadable),
     writable |-> PermissionTest(entry.data, ePermissionsWritable),
     executable |-> PermissionTest(entry.data, ePermissionsExecutable)]

\* The gap region ends at the end of the following entry, not at its base.
GapRegion_ToEntryEnd(entry, load_addr) ==
    [base |-> load_addr, end |-> GetRangeEnd(entry),
     readable |-> "no", writable |-> "no", executable |-> "no"]

\* Lines 587-591: load_addr lies below the entry.
GapRegion(entry, load_addr) ==
    [base |-> load_addr, end |-> entry.base,
     readable |-> "no", writable |-> "no", executable |-> "no"]

\* Line 569: MemoryRegionInfo::Clear.
ClearRegion ==
    [base |-> 0, end |-> 0, readable |-> "dont_know",
     writable |-> "dont_know", executable |-> "dont_know"]

\* Line 596: the error of an address no entry contains or follows.
InvalidAddressError == [msg |-> "invalid address", addr |-> 0]

RegionInfo(infos, load_addr) ==
    LET i == FindEntryThatContainsOrFollows(infos, load_addr)
    IN  IF i # 0
        THEN [error |-> NoError,
              region |-> IF Contains(infos[i], load_addr)
                         THEN EntryRegion(infos[i], load_addr)
                         ELSE IF load_addr < infos[i].base
                         THEN GapRegion(infos[i], load_addr)
                         ELSE ClearRegion]
        ELSE [error |-> InvalidAddressError, region |-> ClearRegion]

\* What the client keeps of one query of an iteration over the regions.
WalkStep(load_addr, r) ==
    [addr |-> load_addr, ok |-> r.error = NoError, base |-> r.region.base,
     end |-> r.region.end]

\* The result of the query of load_addr, walk being the queries the client
\* made before it in the same iteration.
RegionResult(load_addr, walk) ==
    LET r == RegionInfo(m_core_range_infos, load_addr)
    IN  [NoResult EXCEPT !.op = "region", !.addr = load_addr,
            !.error = r.error, !.base = r.region.base,
            !.end = r.region.end,
            !.readable = r.region.readable,
            !.writable = r.region.writable,
            !.executable = r.region.executable,
            !.walk = Append(walk, WalkStep(load_addr, r))]

GetMemoryRegionInfo(load_addr) ==
    /\ Idle
    /\ result' = RegionResult(load_addr, << >>)
    /\ UNCHANGED << m_core_module_sp, core_objfile, corefile_preference,
                    m_core_aranges, m_core_range_infos, m_dyld_addr,
                    m_mach_kernel_addr, m_dyld_plugin_name, load_state,
                    m_thread_list >>
    /\ UNCHANGED process_vars

\* The client iterates over the regions: it takes the region a query returned
\* and queries the end of that region.
GetNextMemoryRegionInfo ==
    /\ result.op = "region"
    /\ result.error = NoError
    /\ result' = RegionResult(result.end, result.walk)
    /\ UNCHANGED << m_core_module_sp, core_objfile, corefile_preference,
                    m_core_aranges, m_core_range_infos, m_dyld_addr,
                    m_mach_kernel_addr, m_dyld_plugin_name, load_state,
                    m_thread_list >>
    /\ UNCHANGED process_vars

-----------------------------------------------------------------------------
(* ProcessMachCore::GetDynamicLoaderAddress as an operation of the session *)

CallGetDynamicLoaderAddress(addr) ==
    /\ Idle
    /\ m_core_module_sp
    /\ LET d == GetDynamicLoaderAddress(m_core_aranges, core_objfile,
                                        [dyld |-> m_dyld_addr,
                                         kernel |-> m_mach_kernel_addr,
                                         hit |-> FALSE], addr)
       IN  /\ m_dyld_addr' = d.dyld
           /\ m_mach_kernel_addr' = d.kernel
           /\ result' = [NoResult EXCEPT !.op = "probe", !.addr = addr,
                             !.ok = d.hit]
    /\ UNCHANGED << m_core_module_sp, core_objfile, corefile_preference,
                    m_core_aranges, m_core_range_infos, m_dyld_plugin_name,
                    load_state, m_thread_list >>
    /\ UNCHANGED process_vars

-----------------------------------------------------------------------------
(* ProcessMachCore::GetImageInfoAddress *)

\* The kernel's address is returned whenever it is valid, whatever the
\* preference is.
ImageInfoAddress_KernelFirst(preference, dyld_addr, mach_kernel_addr) ==
    IF mach_kernel_addr # LLDB_INVALID_ADDRESS THEN mach_kernel_addr
    ELSE dyld_addr

\* Lines 622-637.
ImageInfoAddress(preference, dyld_addr, mach_kernel_addr) ==
    IF preference = "kernel"
    THEN IF mach_kernel_addr # LLDB_INVALID_ADDRESS THEN mach_kernel_addr
         ELSE dyld_addr
    ELSE IF dyld_addr # LLDB_INVALID_ADDRESS THEN dyld_addr
         ELSE mach_kernel_addr

GetImageInfoAddress ==
    /\ Idle
    /\ result' = [NoResult EXCEPT !.op = "image_info",
                     !.value = ImageInfoAddress(corefile_preference,
                                                m_dyld_addr, m_mach_kernel_addr)]
    /\ UNCHANGED << m_core_module_sp, core_objfile, corefile_preference,
                    m_core_aranges, m_core_range_infos, m_dyld_addr,
                    m_mach_kernel_addr, m_dyld_plugin_name, load_state,
                    m_thread_list >>
    /\ UNCHANGED process_vars

\* The debugger's setting GetCorefilePreference() reads is changed.
SetCorefilePreference(preference) ==
    /\ Idle
    /\ corefile_preference # preference
    /\ corefile_preference' = preference
    /\ UNCHANGED << m_core_module_sp, core_objfile, m_core_aranges,
                    m_core_range_infos, m_dyld_addr, m_mach_kernel_addr,
                    m_dyld_plugin_name, load_state, m_thread_list, result >>
    /\ UNCHANGED process_vars

-----------------------------------------------------------------------------
(* ProcessMachCore::UpdateThreadList *)

\* The thread ids run from 0 to num_threads inclusive.
NewThreads_Inclusive(num_threads) == [k \in 1..(num_threads + 1) |-> k - 1]

\* Lines 453-458: a thread for every tid from 0 below num_threads.
NewThreads(num_threads) == [k \in 1..num_threads |-> k - 1]

\* Lines 445-467: the new thread list.
NewThreadList(objfile, old_thread_list) ==
    IF Len(old_thread_list) = 0
    THEN IF objfile.exists THEN NewThreads(objfile.num_thread_contexts)
         ELSE << >>
    ELSE old_thread_list

\* The process takes the new list as its thread list.
UpdateThreadList ==
    /\ Idle
    /\ m_core_module_sp
    /\ LET new_thread_list == NewThreadList(core_objfile, m_thread_list)
       IN  /\ m_thread_list' = new_thread_list
           /\ result' = [NoResult EXCEPT !.op = "update_threads",
                             !.ok = Len(new_thread_list) > 0]
    /\ UNCHANGED << m_core_module_sp, core_objfile, corefile_preference,
                    m_core_aranges, m_core_range_infos, m_dyld_addr,
                    m_mach_kernel_addr, m_dyld_plugin_name, load_state >>
    /\ UNCHANGED process_vars

-----------------------------------------------------------------------------
(* ProcessMachCore::DoDestroy, IsAlive, WarnBeforeDetach *)

\* Lines 479-483: nothing is done and Error() is returned.
DoDestroy ==
    /\ Idle
    /\ destroyed' = TRUE
    /\ result' = [NoResult EXCEPT !.op = "destroy", !.error = NoError]
    /\ UNCHANGED << m_core_module_sp, core_objfile, corefile_preference,
                    m_core_aranges, m_core_range_infos, m_dyld_addr,
                    m_mach_kernel_addr, m_dyld_plugin_name, load_state,
                    m_thread_list >>
    /\ UNCHANGED << initialize_vars, load_vars, source_vars >>

\* The process is alive until it is destroyed.
IsAliveValue_UntilDestroyed == ~destroyed

\* Line 492.
IsAliveValue == TRUE

\* Lines 489-493.
IsAlive ==
    /\ Idle
    /\ result' = [NoResult EXCEPT !.op = "is_alive", !.ok = IsAliveValue]
    /\ UNCHANGED << m_core_module_sp, core_objfile, corefile_preference,
                    m_core_aranges, m_core_range_infos, m_dyld_addr,
                    m_mach_kernel_addr, m_dyld_plugin_name, load_state,
                    m_thread_list >>
    /\ UNCHANGED process_vars

\* Lines 495-499.
WarnBeforeDetach ==
    /\ Idle
    /\ result' = [NoResult EXCEPT !.op = "warn_before_detach", !.ok = FALSE]
    /\ UNCHANGED << m_core_module_sp, core_objfile, corefile_preference,
                    m_core_aranges, m_core_range_infos, m_dyld_addr,
                    m_mach_kernel_addr, m_dyld_plugin_name, load_state,
                    m_thread_list >>
    /\ UNCHANGED process_vars

-----------------------------------------------------------------------------
(* ProcessMachCore::DoLoadCore followed line by line *)

\* No DoLoadCore is under way.  pc is the place in DoLoadCore,
\* ranges_are_sorted the flag of lines 273-288 as the loop left it; i and
\* section_vm_addr are the loop variables of lines 335-346 and iterations
\* counts the passes the inner loop has made over the entry i.
NotLoading ==
    [pc |-> "none", ranges_are_sorted |-> TRUE, i |-> 0,
     section_vm_addr |-> 0, iterations |-> 0,
     saved_mach_kernel_addr |-> LLDB_INVALID_ADDRESS,
     saved_user_dyld_addr |-> LLDB_INVALID_ADDRESS,
     better_kernel_address |-> LLDB_INVALID_ADDRESS,
     callback_calls |-> 0, callback_value |-> LLDB_INVALID_ADDRESS]

\* Lines 232-326: the checks, the two indices, the sort and the test that
\* decides whether the entries are swept.
LoadCoreBegin ==
    /\ Idle
    /\ load_state = "candidate"
    /\ load_step.pc = "none"
    /\ LET err == LoadError(m_core_module_sp, core_objfile)
       IN  IF err # ""
           THEN /\ load_state' = "failed"
                /\ result' = [NoResult EXCEPT !.op = "load",
                                 !.error = [msg |-> err, addr |-> 0]]
                /\ UNCHANGED << m_core_aranges, m_core_range_infos,
                                load_step >>
           ELSE
             LET st == BuildIndices(m_core_aranges, m_core_range_infos,
                                    core_objfile.sections)
             IN  /\ load_state' = "loading"
                 /\ m_core_aranges' = st.aranges
                 /\ m_core_range_infos' = st.infos
                 /\ result' = [NoResult EXCEPT !.op = "loading"]
                 /\ load_step' =
                        [NotLoading EXCEPT
                            !.pc = IF m_dyld_addr = LLDB_INVALID_ADDRESS
                                      \/ m_mach_kernel_addr = LLDB_INVALID_ADDRESS
                                   THEN "entry" ELSE "refine",
                            !.ranges_are_sorted = st.ranges_are_sorted,
                            !.i = 1]
    /\ UNCHANGED << m_core_module_sp, core_objfile, corefile_preference,
                    m_dyld_addr, m_mach_kernel_addr, m_dyld_plugin_name,
                    m_thread_list >>
    /\ UNCHANGED << initialize_vars, source_vars, destroyed >>

\* Lines 335-340: the outer loop's test and the bounds of the entry i.
LoadCoreSweepEntry ==
    /\ load_step.pc = "entry"
    /\ load_step' =
           IF load_step.i <= Len(m_core_aranges)
           THEN [load_step EXCEPT
                    !.pc = "page",
                    !.section_vm_addr = m_core_aranges[load_step.i].base,
                    !.iterations = 0]
           ELSE [load_step EXCEPT !.pc = "refine"]
    /\ UNCHANGED << session_vars, initialize_vars, source_vars, destroyed >>

\* Lines 341-346: the inner loop's test, and one pass when it holds: the
\* probe of section_vm_addr and the step to the next page.
LoadCoreSweepPage ==
    /\ load_step.pc = "page"
    /\ IF load_step.section_vm_addr < GetRangeEnd(m_core_aranges[load_step.i])
       THEN /\ load_step.iterations < MaxSweepPasses
            /\ LET d == GetDynamicLoaderAddress(
                             m_core_aranges, core_objfile,
                             [dyld |-> m_dyld_addr,
                              kernel |-> m_mach_kernel_addr, hit |-> FALSE],
                             load_step.section_vm_addr)
               IN  /\ m_dyld_addr' = d.dyld
                   /\ m_mach_kernel_addr' = d.kernel
            /\ load_step' =
                   [load_step EXCEPT
                       !.section_vm_addr = AddrAdd(@, PageStep),
                       !.iterations = @ + 1]
       ELSE /\ load_step' = [load_step EXCEPT !.pc = "entry", !.i = @ + 1]
            /\ UNCHANGED << m_dyld_addr, m_mach_kernel_addr >>
    /\ UNCHANGED << m_core_module_sp, core_objfile, corefile_preference,
                    m_core_aranges, m_core_range_infos, m_dyld_plugin_name,
                    load_state, m_thread_list, result >>
    /\ UNCHANGED << initialize_vars, source_vars, destroyed >>

\* Lines 351-371: the test of the kernel address; when it is valid the two
\* addresses are saved aside and set to LLDB_INVALID_ADDRESS.
LoadCoreRefine ==
    /\ load_step.pc = "refine"
    /\ IF m_mach_kernel_addr # LLDB_INVALID_ADDRESS
       THEN /\ load_step' =
                   [load_step EXCEPT
                       !.pc = "search",
                       !.saved_mach_kernel_addr = m_mach_kernel_addr,
                       !.saved_user_dyld_addr = m_dyld_addr]
            /\ m_mach_kernel_addr' = LLDB_INVALID_ADDRESS
            /\ m_dyld_addr' = LLDB_INVALID_ADDRESS
       ELSE /\ load_step' = [load_step EXCEPT !.pc = "select"]
            /\ UNCHANGED << m_dyld_addr, m_mach_kernel_addr >>
    /\ UNCHANGED << m_core_module_sp, core_objfile, corefile_preference,
                    m_core_aranges, m_core_range_infos, m_dyld_plugin_name,
                    load_state, m_thread_list, result >>
    /\ UNCHANGED << initialize_vars, source_vars, destroyed >>

\* Line 374, within SearchForDarwinKernel: the search calls back into
\* GetImageInfoAddress (lines 363-366, 617-638).
SearchCallsGetImageInfoAddress ==
    /\ load_step.pc = "search"
    /\ load_step.callback_calls < MaxCallbackCalls
    /\ load_step' =
           [load_step EXCEPT
               !.callback_calls = @ + 1,
               !.callback_value =
                   ImageInfoAddress(corefile_preference, m_dyld_addr,
                                    m_mach_kernel_addr)]
    /\ UNCHANGED << session_vars, initialize_vars, source_vars, destroyed >>

\* Lines 374-384: SearchForDarwinKernel returns better_kernel_address; the
\* saved addresses are put back, and the kernel address is replaced when the
\* search found one.
SearchForDarwinKernelReturns(better_kernel_address) ==
    /\ load_step.pc = "search"
    /\ load_step' =
           [load_step EXCEPT
               !.pc = "select",
               !.better_kernel_address = better_kernel_address]
    /\ LET d == RefineKernel([dyld |-> load_step.saved_user_dyld_addr,
                              kernel |-> load_step.saved_mach_kernel_addr,
                              hit |-> FALSE],
                             better_kernel_address)
       IN  /\ m_dyld_addr' = d.dyld
           /\ m_mach_kernel_addr' = d.kernel
    /\ UNCHANGED << m_core_module_sp, core_objfile, corefile_preference,
                    m_core_aranges, m_core_range_infos, m_dyld_plugin_name,
                    load_state, m_thread_list, result >>
    /\ UNCHANGED << initialize_vars, source_vars, destroyed >>

\* Lines 388-431: the choice of the plug-in, and the return.
LoadCoreSelect ==
    /\ load_step.pc = "select"
    /\ m_dyld_plugin_name' =
           SelectPlugin(corefile_preference,
                        [dyld |-> m_dyld_addr, kernel |-> m_mach_kernel_addr,
                         hit |-> FALSE],
                        m_dyld_plugin_name)
    /\ load_state' = "loaded"
    /\ result' = [NoResult EXCEPT !.op = "load"]
    /\ load_step' = [load_step EXCEPT !.pc = "done"]
    /\ UNCHANGED << m_core_module_sp, core_objfile, corefile_preference,
                    m_core_aranges, m_core_range_infos, m_dyld_addr,
                    m_mach_kernel_addr, m_thread_list >>
    /\ UNCHANGED << initialize_vars, source_vars, destroyed >>

-----------------------------------------------------------------------------
(* ProcessMachCore::Initialize *)

\* The threads that may call Initialize.
InitThreads == 1..MaxInitThreads

\* No call has been made on the 'source' command objects.
NoSourceCommand == [op |-> "none"]

\* A call of DumpLinesInSymbolContexts that has not run yet.
DumpCall(options, sc_list) ==
    [op |-> "dump_lines", options |-> options, sc_list |-> sc_list,
     strm |-> << >>, num_matches |-> 0]

\* Three SourceInfo values that have not been compared yet.
CompareCall(infos) ==
    [op |-> "compare", infos |-> infos,
     less |-> [i \in 1..3 |-> [j \in 1..3 |-> FALSE]],
     equal |-> [i \in 1..3 |-> [j \in 1..3 |-> FALSE]]]

\* Lines 608-614 before any call: the flag is unset, nothing is registered.
NotRegistered ==
    /\ g_once_flag = "unset"
    /\ plugin_registrations = 0
    /\ initialize_pc = [t \in InitThreads |-> "idle"]
    /\ initialize_calls = [t \in InitThreads |-> 0]

\* Nothing is registered, no load is under way, no command has run and the
\* session has not been destroyed.
ProcessStarted ==
    /\ load_step = NotLoading
    /\ source_cmd = NoSourceCommand
    /\ destroyed = FALSE
    /\ NotRegistered

\* A caller of call_once returns as soon as some thread has taken the flag.
CallOnceReturns_WhileActive(flag) == flag # "unset"

\* Line 610, std::call_once: a caller returns without running the function
\* only once an earlier execution has completed.
CallOnceReturns(flag) == flag = "done"

\* Line 607: a thread enters Initialize.
InitializeEnter(t) ==
    /\ initialize_pc[t] = "idle"
    /\ initialize_calls[t] < MaxInitCalls
    /\ initialize_pc' = [initialize_pc EXCEPT ![t] = "call_once"]
    /\ initialize_calls' = [initialize_calls EXCEPT ![t] = @ + 1]
    /\ UNCHANGED << g_once_flag, plugin_registrations >>
    /\ UNCHANGED << session_vars, load_vars, source_vars, destroyed >>

\* Line 610: the thread returns, or takes the unset flag and goes on to run
\* the function; it waits while another thread is running the function.
CallOnce(t) ==
    /\ initialize_pc[t] = "call_once"
    /\ IF CallOnceReturns(g_once_flag)
       THEN /\ initialize_pc' = [initialize_pc EXCEPT ![t] = "idle"]
            /\ UNCHANGED g_once_flag
       ELSE /\ g_once_flag = "unset"
            /\ g_once_flag' = "active"
            /\ initialize_pc' = [initialize_pc EXCEPT ![t] = "register"]
    /\ UNCHANGED << plugin_registrations, initialize_calls >>
    /\ UNCHANGED << session_vars, load_vars, source_vars, destroyed >>

\* Lines 611-613: PluginManager::RegisterPlugin.
RegisterPlugin(t) ==
    /\ initialize_pc[t] = "register"
    /\ plugin_registrations' = plugin_registrations + 1
    /\ initialize_pc' = [initialize_pc EXCEPT ![t] = "registered"]
    /\ UNCHANGED << g_once_flag, initialize_calls >>
    /\ UNCHANGED << session_vars, load_vars, source_vars, destroyed >>

\* Line 614: the function has returned; call_once sets the flag and returns.
CallOnceDone(t) ==
    /\ initialize_pc[t] = "registered"
    /\ g_once_flag' = "done"
    /\ initialize_pc' = [initialize_pc EXCEPT ![t] = "idle"]
    /\ UNCHANGED << plugin_registrations, initialize_calls >>
    /\ UNCHANGED << session_vars, load_vars, source_vars, destroyed >>

-----------------------------------------------------------------------------
(* CommandObjectSource.cpp: CommandObjectSourceInfo::DumpLinesInSymbolContexts *)

\* FileSpec::Equal(a, b, full): the filenames are equal, and so are the
\* directories when full is set.
FileSpecEqual(a, b, full) ==
    /\ a.filename = b.filename
    /\ full => a.directory = b.directory

\* A FileSpec that is not set.
NoFileSpec == [directory |-> 0, filename |-> 0]

\* Lines 191-200: the symbol context is skipped.
DumpSkips(opts, num_matches, sc) ==
    \/ /\ opts.module_list # {}
       /\ sc.module \notin opts.module_list
    \/ /\ opts.file_spec # NoFileSpec
       /\ ~FileSpecEqual(opts.file_spec, sc.line_entry.file,
                         opts.file_spec.directory # 0)
    \/ opts.start_line > 0 /\ sc.line_entry.line < opts.start_line
    \/ opts.end_line > 0 /\ sc.line_entry.line > opts.end_line
    \/ opts.num_lines > 0 /\ num_matches > opts.num_lines

\* Lines 203-213: what one symbol context adds to the stream: a header when
\* the module changed, and the line entry.
DumpEntry(st, sc) ==
    LET header ==
            IF sc.module # st.last_module_file_name
            THEN (IF st.num_matches > 0 THEN << [kind |-> "blank"] >>
                  ELSE << >>)
                 \o << [kind |-> "header", module |-> sc.module] >>
            ELSE << >>
    IN  [strm |-> st.strm \o header
                    \o << [kind |-> "line", line_entry |-> sc.line_entry] >>,
         last_module_file_name |-> sc.module,
         num_matches |-> st.num_matches + 1]

\* Lines 180-219: the loop over the symbol contexts from the index i.
RECURSIVE DumpLoop(_, _, _, _)
DumpLoop(st, opts, sc_list, i) ==
    IF i > Len(sc_list) THEN st
    ELSE IF sc_list[i].comp_unit /\ ~DumpSkips(opts, st.num_matches, sc_list[i])
    THEN DumpLoop(DumpEntry(st, sc_list[i]), opts, sc_list, i + 1)
    ELSE DumpLoop(st, opts, sc_list, i + 1)

\* Lines 160-221: the stream written and the count returned.
DumpLinesInSymbolContexts(opts, sc_list) ==
    DumpLoop([strm |-> << >>, last_module_file_name |-> 0, num_matches |-> 0],
             opts, sc_list, 1)

\* The command calls DumpLinesInSymbolContexts with the arguments it holds.
DumpLines ==
    /\ source_cmd.op = "dump_lines"
    /\ LET r == DumpLinesInSymbolContexts(source_cmd.options,
                                          source_cmd.sc_list)
       IN  source_cmd' = [source_cmd EXCEPT !.op = "dumped",
                                            !.strm = r.strm,
                                            !.num_matches = r.num_matches]
    /\ UNCHANGED << session_vars, initialize_vars, load_vars, destroyed >>

-----------------------------------------------------------------------------
(* CommandObjectSource.cpp: CommandObjectSourceList::SourceInfo *)

\* Lines 892-898: operator ==.
SourceInfoEqual(lhs, rhs) ==
    /\ lhs.function = rhs.function
    /\ lhs.line_entry.file = rhs.line_entry.file
    /\ lhs.line_entry.line = rhs.line_entry.line

\* Lines 908-920: operator <.  The strings are compared by the addresses of
\* their characters (GetCString).
SourceInfoLess(lhs, rhs) ==
    IF lhs.function < rhs.function THEN TRUE
    ELSE IF lhs.line_entry.file.directory < rhs.line_entry.file.directory
    THEN TRUE
    ELSE IF lhs.line_entry.file.filename < rhs.line_entry.file.filename
    THEN TRUE
    ELSE IF lhs.line_entry.line < rhs.line_entry.line THEN TRUE
    ELSE FALSE

\* The comparisons a std::set<SourceInfo> makes among three values.
CompareSourceInfos ==
    /\ source_cmd.op = "compare"
    /\ LET v == source_cmd.infos
       IN  source_cmd' =
               [source_cmd EXCEPT
                   !.op = "compared",
                   !.less = [i \in 1..3 |->
                                [j \in 1..3 |-> SourceInfoLess(v[i], v[j])]],
                   !.equal = [i \in 1..3 |->
                                 [j \in 1..3 |-> SourceInfoEqual(v[i], v[j])]]]
    /\ UNCHANGED << session_vars, initialize_vars, load_vars, destroyed >>

-----------------------------------------------------------------------------
(* The cores the model is run on *)

Section(vm, size, fo, fsz, perms) ==
    [null |-> FALSE, vm_addr |-> vm, byte_size |-> size, file_offset |-> fo,
     file_size |-> fsz, permissions |-> perms]

NullSection ==
    [null |-> TRUE, vm_addr |-> 0, byte_size |-> 0, file_offset |-> 0,
     file_size |-> 0, permissions |-> 0]

\* Sections at 0x1000, 0x2000 and 0x3000: adjacent in VM and in the file,
\* adjacent in VM only, with a file size below the VM size, overlapping,
\* followed by a gap, and a null section pointer.
SectionPool ==
    { Section(4096, 4096, 256, 4096, 0),
      Section(8192, 4096, 4352, 4096, 1),
      Section(8192, 4096, 8448, 4096, 3),
      Section(4096, 4096, 256, 2048, 5),
      Section(8192, 4096, 2304, 4096, 0),
      Section(4096, 6144, 256, 6144, 2),
      Section(4096, 2048, 256, 2048, 6),
      Section(12288, 4096, 8448, 4096, 4),
      NullSection }

SectionLists == UNION { [1..n -> SectionPool] : n \in 0..MaxSections }

\* The file ends one byte into offset 0x1100, or holds every section.
FileSizes == { 4353, 12544 }

KernelHeader ==
    [magic |-> MH_CIGAM_64, filetype |-> ByteSwap_32(MH_EXECUTE),
     flags |-> << 1, 0, 0, 0 >>]

DyldHeader ==
    [magic |-> MH_MAGIC_64, filetype |-> MH_DYLINKER,
     flags |-> << 0, 0, 0, 4 >>]

\* No Mach-O image in the captured memory, or a byte-swapped kernel header
\* at file offset 0x100 and a dyld header at file offset 0x1100.
HeaderConfigs ==
    { [o \in {} |-> NoHeader],
      [o \in {256, 4352} |-> IF o = 256 THEN KernelHeader ELSE DyldHeader] }

KernelSearchResults == { LLDB_INVALID_ADDRESS, 8192 }

ReadAddrs == { 4095, 6143, 8191, 10239, 12287 }

ReadSizes == 0..MaxReadSize

RegionAddrs == { 0, 4096, 6143, 6144, 8192, 12287, 12288, 16384 }

ObjectFile(sections, data_size, headers) ==
    [exists |-> TRUE, num_thread_contexts |-> 1, has_section_list |-> TRUE,
     sections |-> sections, data_size |-> data_size, headers |-> headers]

\* Lines 126-136: the state the constructor leaves.
Constructed ==
    /\ m_core_aranges = << >>
    /\ m_core_range_infos = << >>
    /\ m_dyld_addr = LLDB_INVALID_ADDRESS
    /\ m_mach_kernel_addr = LLDB_INVALID_ADDRESS
    /\ m_dyld_plugin_name = ""
    /\ load_state = "candidate"
    /\ m_thread_list = << >>
    /\ result = NoResult

Init ==
    /\ Constructed
    /\ ProcessStarted
    /\ m_core_module_sp = TRUE
    /\ corefile_preference = "user"
    /\ \E sections \in SectionLists, data_size \in FileSizes,
          headers \in HeaderConfigs :
           core_objfile = ObjectFile(sections, data_size, headers)

LoadCore == \E better \in KernelSearchResults : DoLoadCore(better)

Read == \E addr \in ReadAddrs, size \in ReadSizes : ReadMemory(addr, size)

RegionQuery == \E addr \in RegionAddrs : GetMemoryRegionInfo(addr)

RegionWalk == GetNextMemoryRegionInfo

\* The caller takes the result of the pending call.
Return ==
    /\ ~Idle
    /\ result.op # "loading"
    /\ result' = NoResult
    /\ UNCHANGED << m_core_module_sp, core_objfile, corefile_preference,
                    m_core_aranges, m_core_range_infos, m_dyld_addr,
                    m_mach_kernel_addr, m_dyld_plugin_name, load_state,
                    m_thread_list >>
    /\ UNCHANGED process_vars

Next == LoadCore \/ Read \/ RegionQuery \/ RegionWalk \/ Return

Spec == Init /\ [][Next]_vars

-----------------------------------------------------------------------------
(* Vocabulary of the properties *)

Loaded == load_state = "loaded"

\* The sections the core really has (null section pointers are skipped).
CoreSections ==
    { core_objfile.sections[i] : i \in { j \in DOMAIN core_objfile.sections :
                                           ~core_objfile.sections[j].null } }

SectionContains(S, a) ==
    S.vm_addr <= a /\ a < AddrAdd(S.vm_addr, S.byte_size)

\* The file offset the section S gives the address a.
SectionFileOffset(S, a) == S.file_offset + (a - S.vm_addr)

InSomeEntry(entries, a) ==
    \E i \in 1..Len(entries) : Contains(entries[i], a)

\* The i-th address of the pending read, i counted from 0.
ReadAddr(i) == AddrAdd(result.addr, i)

-----------------------------------------------------------------------------
(* C1 *)

\* C1: a read sets the "core file does not contain" error only when its very
\* first address lies in no SegmentIndex entry; whenever the error is set the
\* byte count is 0, and a read that returns at least one byte leaves the error
\* unset, also when it stops short at a gap.
C1_ErrorOnlyWhenFirstAddressUnmapped ==
    result.op = "read" =>
        /\ result.error # NoError =>
              /\ result.error = UnmappedReadError(result.addr)
              /\ ~InSomeEntry(m_core_aranges, result.addr)
              /\ result.bytes_read = 0
        /\ result.bytes_read >= 1 => result.error = NoError

\* A read that returned a byte and then stopped short at a gap.
C1_Witness ==
    /\ result.op = "read"
    /\ Loaded
    /\ result.bytes_read >= 1
    /\ result.bytes_read < result.size
    /\ ~InSomeEntry(m_core_aranges, ReadAddr(result.bytes_read))
    /\ result.error = NoError

-----------------------------------------------------------------------------
(* C2 *)

\* C2: after load, read(a, n) returns k with 0 <= k <= n; for every i < k the
\* byte dst[i] is the file byte at S.file_offset + (a + i - S.vm_base), S an
\* original section containing a + i; and if k < n then a + k lies in no
\* section or the file has no byte left at the offset of a + k.
C2_ReadReturnsSectionBytes ==
    (result.op = "read" /\ Loaded) =>
        /\ 0 <= result.bytes_read
        /\ result.bytes_read <= result.size
        /\ Len(result.buf) = result.bytes_read
        /\ \A i \in 0..(result.bytes_read - 1) :
              \E S \in CoreSections :
                  /\ SectionContains(S, ReadAddr(i))
                  /\ result.buf[i + 1] = SectionFileOffset(S, ReadAddr(i))
        /\ result.bytes_read < result.size =>
              \/ \A S \in CoreSections :
                     ~SectionContains(S, ReadAddr(result.bytes_read))
              \/ \E S \in CoreSections :
                     /\ SectionContains(S, ReadAddr(result.bytes_read))
                     /\ SectionFileOffset(S, ReadAddr(result.bytes_read))
                            >= core_objfile.data_size

-----------------------------------------------------------------------------
(* C3 *)

\* The entry the index gives the i-th address of the pending read.
ReadEntry(i) == FindEntryThatContains(m_core_aranges, ReadAddr(i))

\* Every address of the pending read lies in an entry, and the file holds
\* the byte the entry maps it to.
ReadIsBacked ==
    \A i \in 0..(result.size - 1) :
        /\ ReadEntry(i) # 0
        /\ LET e == m_core_aranges[ReadEntry(i)]
           IN  e.data.base + (ReadAddr(i) - e.base) < core_objfile.data_size

\* C3: a read whose whole range is covered by entries, contiguous in VM and
\* wherever they lie in the file, the file holding their bytes, returns size
\* bytes, each taken from the file range of the entry that holds its address.
C3_ReadStitchesEntries ==
    (result.op = "read" /\ ReadIsBacked) =>
        /\ result.bytes_read = result.size
        /\ result.error = NoError
        /\ \A i \in 0..(result.size - 1) :
              LET e == m_core_aranges[ReadEntry(i)]
              IN  result.buf[i + 1] = e.data.base + (ReadAddr(i) - e.base)

\* A full read that crossed from one entry into the next, the two entries
\* lying apart in the file.
C3_Witness ==
    /\ result.op = "read"
    /\ ReadIsBacked
    /\ result.size >= 2
    /\ result.bytes_read = result.size
    /\ ReadEntry(0) # ReadEntry(result.size - 1)
    /\ result.buf[result.size] # result.buf[1] + result.size - 1

-----------------------------------------------------------------------------
(* C4: the core of the comment at lines 520-536 *)

\* LC_SEGMENT 0x000f6000 0x00001000 0x1d509ee8 0x00001000
C4_Text1 == Section(1007616, 4096, 491822824, 4096, 0)

\* LC_SEGMENT 0x000f7000 0x00001000 0x1d60aee8 0x00001000
C4_Text2 == Section(1011712, 4096, 492875496, 4096, 0)

\* LC_SEGMENT 0x0f600000 0x00100000 0x1d50aee8 0x00100000
C4_Text3 == Section(257949696, 1048576, 491826920, 1048576, 0)

\* The sections in ascending VM order, and in the file order of the comment.
C4_SectionLists ==
    { << C4_Text1, C4_Text2, C4_Text3 >>, << C4_Text1, C4_Text3, C4_Text2 >> }

\* The file holds the three sections (0x1d60bee8), or ends where the bytes of
\* the section at 0xf7000 would begin (0x1d60aee8).
C4_FileSizes == { 492879592, 492875496 }

\* 0xf5ff0, 0xf6ff0, 0xf6fff, 0xf7ff0
C4_ReadAddrs == { 1007600, 1011696, 1011711, 1015792 }

C4_ReadSizes == { 1, 16, 17, 32, 33 }

InitC4 ==
    /\ Constructed
    /\ ProcessStarted
    /\ m_core_module_sp = TRUE
    /\ corefile_preference = "user"
    /\ \E sections \in C4_SectionLists, data_size \in C4_FileSizes :
           core_objfile = ObjectFile(sections, data_size, [o \in {} |-> NoHeader])

ReadC4 == \E addr \in C4_ReadAddrs, size \in C4_ReadSizes : ReadMemory(addr, size)

NextC4 == LoadCore \/ ReadC4 \/ RegionQuery \/ RegionWalk \/ Return

SpecC4 == InitC4 /\ [][NextC4]_vars

\* The read of the scenario: 32 bytes at 0xf6ff0 of the loaded core.
C4_ReadDone ==
    /\ result.op = "read"
    /\ Loaded
    /\ result.addr = 1011696
    /\ result.size = 32

\* C4 as stated: read(0xf6ff0, 32) returns 16 bytes and no error, the bytes
\* being the file bytes at 0x1d509ee8 + 0xff0.
C4_ReadReturns16 ==
    C4_ReadDone =>
        /\ result.bytes_read = 16
        /\ result.error = NoError
        /\ result.buf = [k \in 1..16 |-> 491826904 + k - 1]

\* C4 as amended: when the file holds the three sections, read(0xf6ff0, 32)
\* returns 32 bytes and no error: the 16 file bytes at 0x1d509ee8 + 0xff0 and
\* then the first 16 file bytes of the section at 0xf7000, at 0x1d60aee8.
C4_ReadReturns32 ==
    (C4_ReadDone /\ core_objfile.data_size >= 492879592) =>
        /\ result.bytes_read = 32
        /\ result.error = NoError
        /\ result.buf = [k \in 1..32 |-> IF k <= 16 THEN 491826904 + k - 1
                                         ELSE 492875496 + k - 17]

C4_Witness ==
    /\ C4_ReadDone
    /\ core_objfile.data_size >= 492879592
    /\ result.bytes_read = 32

-----------------------------------------------------------------------------
(* Vocabulary of the properties of the indices *)

\* The positions of the core's sections in its section list.
SectionIndices ==
    { j \in DOMAIN core_objfile.sections : ~core_objfile.sections[j].null }

\* The sections arrive with vm bases in ascending order.
SectionsAscending ==
    \A i, j \in SectionIndices :
        i < j => core_objfile.sections[i].vm_addr
                     <= core_objfile.sections[j].vm_addr

\* The index entry a section would give on its own.
EntryOf(S) ==
    [base |-> S.vm_addr, size |-> S.byte_size,
     data |-> [base |-> S.file_offset, size |-> S.file_size]]

Overlap(e1, e2) ==
    e1.base < GetRangeEnd(e2) /\ e2.base < GetRangeEnd(e1)

\* Neighbouring entries that meet in VM and in the file.
Mergeable(e1, e2) ==
    /\ e1.base + e1.size = e2.base
    /\ e1.data.base + e1.data.size = e2.data.base

HasPermission(permissions, bit) == (permissions \div bit) % 2 = 1

YesNo(b) == IF b THEN "yes" ELSE "no"

-----------------------------------------------------------------------------
(* C5 *)

\* C5: after load the SegmentIndex entries are in ascending vm_base order
\* and no two of them overlap in VM, whatever section list was loaded.
C5_SortedNoOverlap ==
    Loaded =>
        \A i, j \in 1..Len(m_core_aranges) :
            i < j => /\ m_core_aranges[i].base <= m_core_aranges[j].base
                     /\ ~Overlap(m_core_aranges[i], m_core_aranges[j])

-----------------------------------------------------------------------------
(* C6 *)

\* The first and the last address of a section.
SectionEnds(S) == { S.vm_addr, S.vm_addr + S.byte_size - 1 }

\* No two sections of the core share an address.
SectionsDisjoint ==
    \A i, j \in SectionIndices :
        i # j => ~Overlap(EntryOf(core_objfile.sections[i]),
                          EntryOf(core_objfile.sections[j]))

\* C6: after load, every address a of every section S lies in the entry
\* find_contains(a) returns, and that entry gives a the file offset
\* S.file_offset + (a - S.vm_base), whether or not S was coalesced and
\* whatever its file size is.  The claim is stated here for the cores whose
\* sections do not overlap, where "the section of a" is unambiguous.
C6_SectionAddressesResolve ==
    (Loaded /\ SectionsDisjoint) =>
        \A S \in CoreSections : \A a \in SectionEnds(S) :
            LET i == FindEntryThatContains(m_core_aranges, a)
            IN  /\ i # 0
                /\ Contains(m_core_aranges[i], a)
                /\ EntryFileOffset(m_core_aranges[i], a)
                       = SectionFileOffset(S, a)

-----------------------------------------------------------------------------
(* C7 *)

\* The core has exactly the two sections S1 then S2, S2 starting where S1
\* ends in VM.
TwoAdjacentSections(S1, S2) ==
    \E i, j \in SectionIndices :
        /\ SectionIndices = { i, j }
        /\ i < j
        /\ S1 = core_objfile.sections[i]
        /\ S2 = core_objfile.sections[j]
        /\ S1.vm_addr + S1.byte_size = S2.vm_addr

\* C7: two consecutive sections in ascending VM order, the second starting
\* at the first's VM end, leave one entry with the union of their VM ranges
\* and of their file ranges when the second also starts at the first's file
\* end, and two entries otherwise.
C7_CoalesceAdjacent ==
    Loaded =>
        \A S1, S2 \in CoreSections :
            TwoAdjacentSections(S1, S2) =>
                IF S2.file_offset = S1.file_offset + S1.file_size
                THEN m_core_aranges =
                         << [base |-> S1.vm_addr,
                             size |-> S1.byte_size + S2.byte_size,
                             data |-> [base |-> S1.file_offset,
                                       size |-> S1.file_size + S2.file_size]] >>
                ELSE m_core_aranges = << EntryOf(S1), EntryOf(S2) >>

\* The example of the claim: {0x1000, 0x1000, fo 0x100} then
\* {0x2000, 0x1000, fo 0x1100} gives [0x1000, 0x3000) / [0x100, 0x2100).
C7_Witness ==
    /\ Loaded
    /\ TwoAdjacentSections(Section(4096, 4096, 256, 4096, 0),
                           Section(8192, 4096, 4352, 4096, 1))
    /\ m_core_aranges =
           << [base |-> 4096, size |-> 8192,
               data |-> [base |-> 256, size |-> 8192]] >>

-----------------------------------------------------------------------------
(* C8 *)

NoMergeableNeighbours ==
    \A i \in 1..(Len(m_core_aranges) - 1) :
        ~Mergeable(m_core_aranges[i], m_core_aranges[i + 1])

\* C8 as stated: whatever the order of the section list, no two neighbouring
\* entries of the built index meet both in VM and in the file.
C8_NoMergeableNeighbours == Loaded => NoMergeableNeighbours

\* C8 as amended: when the sections arrive in ascending vm_base order, no two
\* neighbouring entries of the built index meet both in VM and in the file.
C8_NoMergeableNeighboursAscending ==
    (Loaded /\ SectionsAscending) => NoMergeableNeighbours

\* Sections in ascending order left two entries that meet in VM only.
C8_Witness ==
    /\ Loaded
    /\ SectionsAscending
    /\ Len(m_core_aranges) >= 2
    /\ GetRangeEnd(m_core_aranges[1]) = m_core_aranges[2].base

-----------------------------------------------------------------------------
(* C9 *)

\* C9: after load, for every section S the permission entry
\* find_contains(S.vm_base) returns carries S.permissions, or readable and
\* executable (not writable) when S.permissions is zero; and the
\* PermissionIndex holds one entry per section.
C9_PermissionsPerSection ==
    Loaded =>
        /\ Len(m_core_range_infos) = Cardinality(SectionIndices)
        /\ \A S \in CoreSections :
              LET i == FindEntryThatContains(m_core_range_infos, S.vm_addr)
              IN  /\ i # 0
                  /\ m_core_range_infos[i].data =
                         IF S.permissions = 0
                         THEN ePermissionsReadable + ePermissionsExecutable
                         ELSE S.permissions

-----------------------------------------------------------------------------
(* C10 *)

\* The region the pending region query returned.
ResultRegion ==
    [base |-> result.base, end |-> result.end, readable |-> result.readable,
     writable |-> result.writable, executable |-> result.executable]

\* The permission entries that contain, lie above and lie below the address
\* of the pending region query.
EntriesInside ==
    { i \in 1..Len(m_core_range_infos) :
        Contains(m_core_range_infos[i], result.addr) }

EntriesAbove ==
    { i \in 1..Len(m_core_range_infos) :
        m_core_range_infos[i].base > result.addr }

EntriesBelow ==
    { i \in 1..Len(m_core_range_infos) :
        GetRangeEnd(m_core_range_infos[i]) <= result.addr }

-----------------------------------------------------------------------------
(* C11 *)

\* The address of the pending region query lies at or beyond the end of the
\* last permission entry, or the PermissionIndex is empty.
BeyondLastEntry ==
    \/ m_core_range_infos = << >>
    \/ result.addr >= GetRangeEnd(m_core_range_infos[Len(m_core_range_infos)])

\* C11: a region query returns the "invalid address" error for every address
\* at or beyond the end of the last permission entry, for every address when
\* the PermissionIndex is empty, and for no other address.
C11_InvalidAddressBeyondLast ==
    result.op = "region" =>
        (result.error = InvalidAddressError <=> BeyondLastEntry)

-----------------------------------------------------------------------------
(* C12 *)

\* The iteration of the pending region query has ended with the error.
WalkEnded == result.op = "region" /\ result.error # NoError

\* The permission entries at or above the address the iteration started at.
EntriesAboveStart ==
    { i \in 1..Len(m_core_range_infos) :
        m_core_range_infos[i].base >= result.walk[1].addr }

\* The step of the iteration that returned the i-th permission entry.
VisitOf(i) ==
    { k \in 1..Len(result.walk) :
        /\ result.walk[k].ok
        /\ result.walk[k].base = m_core_range_infos[i].base
        /\ result.walk[k].end = GetRangeEnd(m_core_range_infos[i]) }

\* C12: in an iteration that queries the end of the region returned last,
\* every region returned holds the address queried, so the addresses queried
\* increase strictly; the iteration takes at most two queries per permission
\* entry before it ends with "invalid address", and by then it has returned
\* every permission entry above its start, in ascending order.
C12_RegionIteration ==
    result.op = "region" =>
        /\ \A k \in 1..Len(result.walk) :
              result.walk[k].ok =>
                  /\ result.walk[k].base <= result.walk[k].addr
                  /\ result.walk[k].addr < result.walk[k].end
        /\ \A k \in 1..(Len(result.walk) - 1) :
              result.walk[k].addr < result.walk[k + 1].addr
        /\ Len(result.walk) <= 2 * Len(m_core_range_infos) + 1
        /\ WalkEnded =>
              /\ \A i \in EntriesAboveStart : VisitOf(i) # {}
              /\ \A i, j \in EntriesAboveStart :
                    m_core_range_infos[i].base < m_core_range_infos[j].base
                        => \E k \in VisitOf(i) : \E l \in VisitOf(j) : k < l

-----------------------------------------------------------------------------
(* The cores the image discovery is run on *)

\* Sections at 0x1000, 0x1800, 0x2000 and 0x3000.
ImageSectionLists ==
    { << >>,
      << Section(4096, 4096, 256, 4096, 0) >>,
      \* coalesced into one entry
      << Section(4096, 4096, 256, 4096, 0), Section(8192, 4096, 4352, 4096, 1) >>,
      \* the first section has fewer bytes in the file than in VM
      << Section(4096, 4096, 256, 2048, 5), Section(8192, 4096, 2304, 4096, 0) >>,
      \* the second section begins 0x800 above the first
      << Section(4096, 2048, 256, 2048, 6), Section(6144, 4096, 2304, 4096, 0) >>,
      \* two entries, in order and out of order
      << Section(4096, 4096, 256, 4096, 0), Section(12288, 4096, 8448, 4096, 4) >>,
      << Section(12288, 4096, 8448, 4096, 4), Section(4096, 4096, 256, 4096, 0) >> }

\* The file holds every section, or ends one byte before the end of a
\* mach_header at offset 0x1100.
ImageFileSizes == { 4379, 12544 }

Kernel32Header ==
    [magic |-> MH_MAGIC, filetype |-> MH_EXECUTE, flags |-> << 0, 0, 0, 1 >>]

UserExecutableHeader ==
    [magic |-> MH_MAGIC_64, filetype |-> MH_EXECUTE,
     flags |-> << 0, 32, 0, 133 >>]

SwappedUserExecutableHeader ==
    [magic |-> MH_CIGAM, filetype |-> ByteSwap_32(MH_EXECUTE),
     flags |-> << 133, 0, 32, 0 >>]

SwappedDyldHeader ==
    [magic |-> MH_CIGAM, filetype |-> ByteSwap_32(MH_DYLINKER),
     flags |-> << 4, 0, 0, 0 >>]

\* MH_DYLIB
DylibHeader ==
    [magic |-> MH_MAGIC_64, filetype |-> << 0, 0, 0, 6 >>,
     flags |-> << 0, 0, 0, 0 >>]

\* A byte-swapped magic before a filetype that reads MH_DYLINKER as it is.
MixedOrderHeader ==
    [magic |-> MH_CIGAM_64, filetype |-> MH_DYLINKER,
     flags |-> << 0, 0, 0, 0 >>]

\* The headers in the file, by file offset (0x100, 0x900, 0x1100, 0x2100).
ImageHeaderConfigs ==
    { [o \in {} |-> NoHeader],
      [o \in {256, 4352} |-> IF o = 256 THEN KernelHeader ELSE DyldHeader],
      [o \in {2304} |-> DyldHeader],
      [o \in {256, 8448} |-> DyldHeader],
      [o \in {256, 8448} |-> IF o = 256 THEN Kernel32Header ELSE KernelHeader],
      [o \in {256, 4352} |->
          IF o = 256 THEN UserExecutableHeader ELSE SwappedDyldHeader],
      [o \in {256, 4352} |-> IF o = 256 THEN DylibHeader ELSE MixedOrderHeader],
      [o \in {256} |-> SwappedUserExecutableHeader] }

ProbeAddrs == { 4096, 6144, 8192, 12288 }

CorefilePreferences == { "kernel", "user" }

\* A core that may lack its module, its object file, its thread contexts or
\* its section list.
CoreFile(exists, num_thread_contexts, has_section_list, sections, size, h) ==
    [exists |-> exists, num_thread_contexts |-> num_thread_contexts,
     has_section_list |-> has_section_list, sections |-> sections,
     data_size |-> size, headers |-> h]

\* Every core that can be loaded, and one core with every combination of the
\* defects that make the load fail.
InitImages ==
    /\ Constructed
    /\ ProcessStarted
    /\ corefile_preference = "user"
    /\ \E module_sp \in BOOLEAN, exists \in BOOLEAN,
          num_thread_contexts \in 0..MaxThreads, has_section_list \in BOOLEAN,
          sections \in ImageSectionLists, data_size \in ImageFileSizes,
          headers \in ImageHeaderConfigs :
           /\ \/ /\ module_sp
                 /\ exists
                 /\ num_thread_contexts > 0
                 /\ has_section_list
              \/ /\ Len(sections) = 2
                 /\ sections[2].file_offset = 4352
                 /\ data_size = 12544
                 /\ DOMAIN headers = {}
           /\ m_core_module_sp = module_sp
           /\ core_objfile = CoreFile(exists, num_thread_contexts,
                                      has_section_list, sections, data_size,
                                      headers)

Probe == \E addr \in ProbeAddrs : CallGetDynamicLoaderAddress(addr)

ImageInfo == GetImageInfoAddress

SetPreference == \E preference \in CorefilePreferences :
                     SetCorefilePreference(preference)

UpdateThreads == UpdateThreadList

NextImages ==
    LoadCore \/ Probe \/ ImageInfo \/ SetPreference \/ UpdateThreads \/ Return

SpecImages == InitImages /\ [][NextImages]_vars

-----------------------------------------------------------------------------
(* Vocabulary of the properties of the image discovery *)

\* The mach_header the file holds for the address a of the index aranges:
\* NoHeader where a is unmapped or the file has fewer bytes than a header.
HeaderAt(aranges, a) ==
    LET i == FindEntryThatContains(aranges, a)
    IN  IF i = 0 THEN NoHeader
        ELSE LET o == aranges[i].data.base + (a - aranges[i].base)
             IN  IF /\ a + SizeofMachHeader <= aranges[i].base + aranges[i].size
                    /\ o + SizeofMachHeader <= core_objfile.data_size
                    /\ o \in DOMAIN core_objfile.headers
                 THEN core_objfile.headers[o]
                 ELSE NoHeader

NativeMagic(h) == h.magic = << 254, 237, 250, 206 >>
                      \/ h.magic = << 254, 237, 250, 207 >>

SwappedMagic(h) == h.magic = << 206, 250, 237, 254 >>
                       \/ h.magic = << 207, 250, 237, 254 >>

\* The header of a dynamic linker: filetype 7 in the byte order of the magic.
IsDyldHeader(h) ==
    \/ NativeMagic(h) /\ h.filetype = << 0, 0, 0, 7 >>
    \/ SwappedMagic(h) /\ h.filetype = << 7, 0, 0, 0 >>

\* The header of a kernel: filetype 2 and the flag bit 0x4 clear, in the byte
\* order of the magic.
IsKernelHeader(h) ==
    \/ NativeMagic(h) /\ h.filetype = << 0, 0, 0, 2 >>
           /\ (h.flags[4] \div 4) % 2 = 0
    \/ SwappedMagic(h) /\ h.filetype = << 2, 0, 0, 0 >>
           /\ (h.flags[1] \div 4) % 2 = 0

\* The addresses the sweep of an index probes.
SweepAddrs(aranges) ==
    UNION { { aranges[i].base + k * PageStep :
                k \in 0..((aranges[i].size - 1) \div PageStep) } :
            i \in 1..Len(aranges) }

LoadSucceeded == result.op = "load" /\ load_state = "loaded"

-----------------------------------------------------------------------------
(* C13 *)

\* C13: each slot keeps its first hit.  A probe leaves a dyld_addr and a
\* kernel_addr that an earlier hit recorded as they are; and the dyld_addr a
\* load leaves is the first address of its sweep that holds a dyld header.
C13_FirstHitKept ==
    [][ /\ (result.op = "none" /\ result'.op = "probe") =>
              /\ m_dyld_addr # LLDB_INVALID_ADDRESS
                    => m_dyld_addr' = m_dyld_addr
              /\ m_mach_kernel_addr # LLDB_INVALID_ADDRESS
                    => m_mach_kernel_addr' = m_mach_kernel_addr
        /\ (result.op = "none" /\ result'.op = "load"
               /\ load_state' = "loaded") =>
              \A a \in SweepAddrs(m_core_aranges') :
                  IsDyldHeader(HeaderAt(m_core_aranges', a))
                      => m_dyld_addr' <= a ]_vars

-----------------------------------------------------------------------------
(* C14 *)

\* C14: a probe of addr signals a hit exactly when the header at addr, read
\* in the byte order of its magic, is that of a dynamic linker or of a kernel
\* (MH_EXECUTE without MH_DYLDLINK); it records addr as dyld_addr in the
\* first case and as kernel_addr in the second, leaves both slots as they
\* were in every other case, and never changes both.
C14_ProbeClassifies ==
    [][ (result.op = "none" /\ result'.op = "probe") =>
            LET h == HeaderAt(m_core_aranges, result'.addr)
            IN  /\ result'.ok <=> (IsDyldHeader(h) \/ IsKernelHeader(h))
                /\ m_dyld_addr' =
                       IF IsDyldHeader(h) THEN result'.addr ELSE m_dyld_addr
                /\ m_mach_kernel_addr' =
                       IF IsKernelHeader(h) THEN result'.addr
                       ELSE m_mach_kernel_addr
                /\ \/ m_dyld_addr' = m_dyld_addr
                   \/ m_mach_kernel_addr' = m_mach_kernel_addr ]_vars

\* A probe hit a byte-swapped kernel header and recorded its address.
C14_Witness ==
    /\ result.op = "probe"
    /\ result.ok
    /\ SwappedMagic(HeaderAt(m_core_aranges, result.addr))
    /\ IsKernelHeader(HeaderAt(m_core_aranges, result.addr))
    /\ m_mach_kernel_addr = result.addr
    /\ m_dyld_addr # result.addr

-----------------------------------------------------------------------------
(* C15 *)

\* The file holds a dyld header where the bytes of the section S begin, and
\* no dyld header anywhere else.
OnlyDyldHeaderAtBaseOf(S) ==
    /\ S.file_offset \in DOMAIN core_objfile.headers
    /\ IsDyldHeader(core_objfile.headers[S.file_offset])
    /\ S.file_size >= SizeofMachHeader
    /\ S.file_offset + SizeofMachHeader <= core_objfile.data_size
    /\ \A o \in DOMAIN core_objfile.headers :
           IsDyldHeader(core_objfile.headers[o]) => o = S.file_offset

\* C15: when the captured memory holds a dyld header at the vm_base of a
\* section and no other dyld header, load leaves that address in dyld_addr
\* and, under the user preference, selects dyld-macosx; for every section
\* list, also when the section was coalesced into the entry before it.
C15_DyldAtSectionBaseFound ==
    LoadSucceeded =>
        \A S \in CoreSections :
            OnlyDyldHeaderAtBaseOf(S) =>
                /\ m_dyld_addr = S.vm_addr
                /\ corefile_preference = "user"
                       => m_dyld_plugin_name = DyldPluginName

-----------------------------------------------------------------------------
(* C16 *)

DyldFound == m_dyld_addr # LLDB_INVALID_ADDRESS

KernelFound == m_mach_kernel_addr # LLDB_INVALID_ADDRESS

\* C16: after load the loader plug-in name follows the preference and what
\* was found: under the kernel preference darwin-kernel if kernel_addr is
\* valid, else dyld-macosx if dyld_addr is valid; under the user preference
\* dyld-macosx if dyld_addr is valid, else darwin-kernel if kernel_addr is
\* valid; and it is empty exactly when neither address was found.
C16_PluginFollowsPreference ==
    LoadSucceeded =>
        /\ (corefile_preference = "kernel" /\ KernelFound)
               => m_dyld_plugin_name = "darwin-kernel"
        /\ (corefile_preference = "kernel" /\ ~KernelFound /\ DyldFound)
               => m_dyld_plugin_name = "dyld-macosx"
        /\ (corefile_preference = "user" /\ DyldFound)
               => m_dyld_plugin_name = "dyld-macosx"
        /\ (corefile_preference = "user" /\ ~DyldFound /\ KernelFound)
               => m_dyld_plugin_name = "darwin-kernel"
        /\ m_dyld_plugin_name = "" <=> (~DyldFound /\ ~KernelFound)

\* A load under the kernel preference found both images and took the kernel.
C16_Witness ==
    /\ LoadSucceeded
    /\ corefile_preference = "kernel"
    /\ DyldFound
    /\ KernelFound
    /\ m_dyld_plugin_name = "darwin-kernel"

-----------------------------------------------------------------------------
(* C17 *)

\* The address get_image_info_address() returns in the current state.
ImageInfoNow ==
    ImageInfoAddress(corefile_preference, m_dyld_addr, m_mach_kernel_addr)

\* C17 as stated: whenever load succeeds, the loader plug-in name is not
\* empty and get_image_info_address() is a valid address.
C17_LoadChoosesImage ==
    LoadSucceeded =>
        /\ m_dyld_plugin_name # ""
        /\ ImageInfoNow # LLDB_INVALID_ADDRESS

\* C17 as amended: whenever load succeeds and found dyld_addr or kernel_addr,
\* exactly one of them is chosen: the plug-in name is not empty and
\* get_image_info_address() is the valid address of the image the name stands
\* for; when load succeeds and found neither, the name is empty and
\* get_image_info_address() is the invalid address.
C17_LoadChoosesImageIfFound ==
    LoadSucceeded =>
        IF DyldFound \/ KernelFound
        THEN /\ ImageInfoNow # LLDB_INVALID_ADDRESS
             /\ \/ /\ m_dyld_plugin_name = "dyld-macosx"
                   /\ ImageInfoNow = m_dyld_addr
                \/ /\ m_dyld_plugin_name = "darwin-kernel"
                   /\ ImageInfoNow = m_mach_kernel_addr
        ELSE /\ m_dyld_plugin_name = ""
             /\ ImageInfoNow = LLDB_INVALID_ADDRESS

\* A load under the user preference that found a kernel only.
C17_Witness ==
    /\ LoadSucceeded
    /\ corefile_preference = "user"
    /\ ~DyldFound
    /\ KernelFound
    /\ m_dyld_plugin_name = "darwin-kernel"

-----------------------------------------------------------------------------
(* C18 *)

\* C18: get_image_info_address() returns kernel_addr under the kernel
\* preference when kernel_addr is valid and dyld_addr under the user
\* preference when dyld_addr is valid, and the other address otherwise; it
\* returns the invalid address only when both are invalid.
C18_ImageInfoFollowsPreference ==
    result.op = "image_info" =>
        /\ (corefile_preference = "kernel" /\ KernelFound)
               => result.value = m_mach_kernel_addr
        /\ (corefile_preference = "kernel" /\ ~KernelFound)
               => result.value = m_dyld_addr
        /\ (corefile_preference = "user" /\ DyldFound)
               => result.value = m_dyld_addr
        /\ (corefile_preference = "user" /\ ~DyldFound)
               => result.value = m_mach_kernel_addr
        /\ result.value = LLDB_INVALID_ADDRESS
               => (~DyldFound /\ ~KernelFound)

\* Both images were found and the preference was set back to user after a
\* load under the kernel preference: the query returns dyld_addr.
C18_Witness ==
    /\ result.op = "image_info"
    /\ Loaded
    /\ DyldFound
    /\ KernelFound
    /\ m_dyld_addr # m_mach_kernel_addr
    /\ m_dyld_plugin_name = "darwin-kernel"
    /\ corefile_preference = "user"
    /\ result.value = m_dyld_addr

-----------------------------------------------------------------------------
(* C19 *)

LoadFailed == result.op = "load" /\ load_state = "failed"

\* C19: load fails with "invalid core module" without a core module, else
\* with "invalid core object file" without an object file, else with the
\* LC_THREAD message when there is no thread context, else with "core file
\* has no sections" when the section list is absent or empty, four different
\* errors; it succeeds otherwise; and a failed load leaves both indices
\* empty, dyld_addr and kernel_addr as they were and the plug-in name empty.
C19_LoadFailures ==
    [][ (result.op = "none" /\ result'.op = "load") =>
          LET msg == result'.error.msg
              no_sections == ~core_objfile.has_section_list
                                 \/ core_objfile.sections = << >>
          IN  /\ ~m_core_module_sp => msg = "invalid core module"
              /\ (m_core_module_sp /\ ~core_objfile.exists)
                     => msg = "invalid core object file"
              /\ (m_core_module_sp /\ core_objfile.exists
                     /\ core_objfile.num_thread_contexts = 0)
                     => /\ msg # ""
                        /\ msg \notin { "invalid core module",
                                         "invalid core object file",
                                         "core file has no sections" }
              /\ (m_core_module_sp /\ core_objfile.exists
                     /\ core_objfile.num_thread_contexts > 0 /\ no_sections)
                     => msg = "core file has no sections"
              /\ (m_core_module_sp /\ core_objfile.exists
                     /\ core_objfile.num_thread_contexts > 0 /\ ~no_sections)
                     => (msg = "" /\ load_state' = "loaded")
              /\ msg # "" =>
                     /\ load_state' = "failed"
                     /\ m_core_aranges' = << >>
                     /\ m_core_range_infos' = << >>
                     /\ m_dyld_addr' = m_dyld_addr
                     /\ m_mach_kernel_addr' = m_mach_kernel_addr
                     /\ m_dyld_plugin_name' = "" ]_vars

\* A load failed for the missing thread contexts of a core that has no
\* section list either.
C19_Witness ==
    /\ LoadFailed
    /\ m_core_module_sp
    /\ core_objfile.exists
    /\ core_objfile.num_thread_contexts = 0
    /\ ~core_objfile.has_section_list
    /\ result.error.msg # "core file has no sections"
    /\ m_core_aranges = << >>

-----------------------------------------------------------------------------
(* C20 *)

\* C20: after a successful load a refresh of the empty thread list gives the
\* threads 0..N-1, N = num_thread_contexts >= 1, in order, and a refresh of
\* a list that has threads copies it, so that the list has N threads after
\* any number of refreshes; a refresh returns true exactly when the list it
\* leaves is not empty.
C20_ThreadListRefresh ==
    [][ (result.op = "none" /\ result'.op = "update_threads") =>
          /\ result'.ok <=> m_thread_list' # << >>
          /\ Loaded =>
                /\ core_objfile.num_thread_contexts >= 1
                /\ Len(m_thread_list') = core_objfile.num_thread_contexts
                /\ \A k \in 1..Len(m_thread_list') : m_thread_list'[k] = k - 1
                /\ m_thread_list # << >> => m_thread_list' = m_thread_list ]_vars

\* A refresh after a successful load of a core with two thread contexts.
C20_Witness ==
    /\ result.op = "update_threads"
    /\ Loaded
    /\ core_objfile.num_thread_contexts = 2
    /\ m_thread_list = << 0, 1 >>
    /\ result.ok

-----------------------------------------------------------------------------
(* The plug-in registration *)

\* No core is involved: the session stays as it was constructed.
InitInitialize ==
    /\ Constructed
    /\ ProcessStarted
    /\ m_core_module_sp = FALSE
    /\ corefile_preference = "user"
    /\ core_objfile = CoreFile(FALSE, 0, FALSE, << >>, 0, [o \in {} |-> NoHeader])

EnterInitialize == \E t \in InitThreads : InitializeEnter(t)

TakeOnceFlag == \E t \in InitThreads : CallOnce(t)

Register == \E t \in InitThreads : RegisterPlugin(t)

FinishOnce == \E t \in InitThreads : CallOnceDone(t)

NextInitialize == EnterInitialize \/ TakeOnceFlag \/ Register \/ FinishOnce

SpecInitialize == InitInitialize /\ [][NextInitialize]_vars

-----------------------------------------------------------------------------
(* C21 *)

\* The thread t has returned from a call of Initialize.
HasReturned(t) == initialize_pc[t] = "idle" /\ initialize_calls[t] >= 1

\* C21: however many calls of Initialize are made, one after the other or
\* by several threads at once, the plug-in is never registered twice, and a
\* call returns only after the one registration has completed.
C21_RegisteredOnce ==
    /\ plugin_registrations <= 1
    /\ \A t \in InitThreads :
           HasReturned(t) => (plugin_registrations = 1 /\ g_once_flag = "done")

\* Every thread has made all its calls of Initialize and has returned from
\* them, and the plug-in is registered once.
C21_Witness ==
    /\ \A t \in InitThreads :
           HasReturned(t) /\ initialize_calls[t] = MaxInitCalls
    /\ plugin_registrations = 1

-----------------------------------------------------------------------------
(* The load followed line by line: cores of up to three sections, one of    *)
(* them ending within a page of the top of the address space                *)

LowSection == Section(4096, 4096, 256, 4096, 0)

\* Continues LowSection in VM and in the file.
NextSection == Section(8192, 4096, 4352, 4096, 1)

HighSection == Section(12288, 4096, 8448, 4096, 4)

\* Starts on the last page boundary and ends 0x800 below the top.
TopSection == Section(AddrSpace - PageStep, 2048, 12544, 2048, 4)

StepSectionPool == { LowSection, NextSection, HighSection, TopSection }

StepSectionLists == UNION { [1..n -> StepSectionPool] : n \in 1..3 }

StepFileSize == 16384

\* No image, a kernel and a dyld, or a dyld alone.
StepHeaderConfigs ==
    HeaderConfigs \cup { [o \in {256} |-> DyldHeader] }

InitLoadSteps ==
    /\ Constructed
    /\ ProcessStarted
    /\ m_core_module_sp = TRUE
    /\ corefile_preference \in CorefilePreferences
    /\ \E sections \in StepSectionLists, headers \in StepHeaderConfigs :
           core_objfile = ObjectFile(sections, StepFileSize, headers)

SearchReturns ==
    \E better \in KernelSearchResults : SearchForDarwinKernelReturns(better)

NextLoadSteps ==
    \/ LoadCoreBegin
    \/ LoadCoreSweepEntry
    \/ LoadCoreSweepPage
    \/ LoadCoreRefine
    \/ SearchCallsGetImageInfoAddress
    \/ SearchReturns
    \/ LoadCoreSelect
    \/ Read
    \/ Return

SpecLoadSteps == InitLoadSteps /\ [][NextLoadSteps]_vars

\* The passes a loop from the entry's base to its end in steps of PageStep
\* makes when it ends: one for every page the entry's size begins.
PagesOf(entry) == (entry.size + PageStep - 1) \div PageStep

\* C22: the load and the read run to their end: a read makes at most size
\* passes of its loop, and the sweep of an entry makes no more passes than
\* the entry has pages, for every base and end, the entries that end within
\* 0x1000 of the top of the address space included.
C22_LoadAndReadTerminate ==
    /\ result.op = "read" => result.value <= result.size
    /\ load_step.pc = "page" =>
           load_step.iterations <= PagesOf(m_core_aranges[load_step.i])

-----------------------------------------------------------------------------
(* A session that is loaded a second time *)

Reload == \E better \in KernelSearchResults : DoLoadCoreAgain(better)

NextReload == LoadCore \/ Reload \/ RegionQuery \/ Return

SpecReload == Init /\ [][NextReload]_vars

\* C23: a second load of the same core on the same session leaves the two
\* indices and the discovery state as the first load left them: the state is
\* derived afresh and no entry is added.
C23_ReloadSameState ==
    [][(load_state = "loaded" /\ load_state' = "reloaded") =>
           /\ m_core_aranges' = m_core_aranges
           /\ m_core_range_infos' = m_core_range_infos
           /\ m_dyld_addr' = m_dyld_addr
           /\ m_mach_kernel_addr' = m_mach_kernel_addr
           /\ m_dyld_plugin_name' = m_dyld_plugin_name]_vars

-----------------------------------------------------------------------------
(* The loop over the sections, on the cores of the load followed line by line *)

\* DoLoadCore has built the two indices.
IndicesBuilt == load_step.pc # "none"

\* The section k continues the section before it in VM and in the file.
ContinuesPrevious(k) ==
    LET S == core_objfile.sections
    IN  /\ AddrAdd(S[k - 1].vm_addr, S[k - 1].byte_size) = S[k].vm_addr
        /\ AddrAdd(S[k - 1].file_offset, S[k - 1].file_size) = S[k].file_offset

\* No section up to the section k has a lower vm_addr than the one before it.
AscendingUpTo(k) ==
    \A j \in 2..k :
        core_objfile.sections[j - 1].vm_addr <= core_objfile.sections[j].vm_addr

MaxBaseBefore(k) ==
    LET S == core_objfile.sections
    IN  CHOOSE m \in { S[j].vm_addr : j \in 1..(k - 1) } :
            \A j \in 1..(k - 1) : S[j].vm_addr <= m

\* Some section's vm_addr is below the highest one seen before it.
SomeSectionBelowMax ==
    \E k \in 2..Len(core_objfile.sections) :
        core_objfile.sections[k].vm_addr < MaxBaseBefore(k)

\* The entries are in ascending order of their bases.
SortedByBase(entries) ==
    \A i, j \in 1..Len(entries) : i < j => entries[i].base <= entries[j].base

\* C25: at the end of the loop the sorted flag is false exactly when some
\* section's vm_base is below the highest vm_base seen before it (the test
\* against the preceding section alone gives that flag), and when it is
\* false both indices are sorted afterwards.
C25_SortedFlag ==
    IndicesBuilt =>
        /\ ~load_step.ranges_are_sorted <=> SomeSectionBelowMax
        /\ ~load_step.ranges_are_sorted =>
               /\ SortedByBase(m_core_aranges)
               /\ SortedByBase(m_core_range_infos)

\* The last section is above its predecessor and below the first one: the
\* flag stayed false and the indices were sorted.
C25_Witness ==
    /\ load_step.pc = "done"
    /\ core_objfile.sections = << HighSection, LowSection, NextSection >>
    /\ SomeSectionBelowMax
    /\ ~load_step.ranges_are_sorted
    /\ m_core_range_infos[1].base = LowSection.vm_addr
    /\ m_core_range_infos[3].base = HighSection.vm_addr

-----------------------------------------------------------------------------
(* The kernel refinement *)

\* C26: the kernel refinement runs only when the kernel address is valid
\* after the sweep; while SearchForDarwinKernel runs both addresses read
\* LLDB_INVALID_ADDRESS, so GetImageInfoAddress returns it to the search;
\* afterwards the dyld address is what it was before the call and the kernel
\* address is the search's result when that is valid, else what it was; the
\* plug-in is chosen only after this step.
C26_KernelRefinement ==
    [][/\ load_step.pc = "refine" =>
              /\ load_step'.pc = "search"
                     <=> m_mach_kernel_addr # LLDB_INVALID_ADDRESS
              /\ load_step'.pc = "search" =>
                     /\ load_step'.saved_mach_kernel_addr = m_mach_kernel_addr
                     /\ load_step'.saved_user_dyld_addr = m_dyld_addr
       /\ load_step'.pc = "search" =>
              /\ m_mach_kernel_addr' = LLDB_INVALID_ADDRESS
              /\ m_dyld_addr' = LLDB_INVALID_ADDRESS
              /\ load_step'.callback_calls > load_step.callback_calls =>
                     load_step'.callback_value = LLDB_INVALID_ADDRESS
       /\ load_step.pc = "search" =>
              /\ load_step'.saved_mach_kernel_addr
                     = load_step.saved_mach_kernel_addr
              /\ load_step'.saved_user_dyld_addr
                     = load_step.saved_user_dyld_addr
       /\ (load_step.pc = "search" /\ load_step'.pc # "search") =>
              /\ m_dyld_addr' = load_step.saved_user_dyld_addr
              /\ m_mach_kernel_addr' =
                     IF load_step'.better_kernel_address # LLDB_INVALID_ADDRESS
                     THEN load_step'.better_kernel_address
                     ELSE load_step.saved_mach_kernel_addr
       /\ m_dyld_plugin_name' # m_dyld_plugin_name =>
              load_step.pc = "select"
       /\ load_step'.pc = "select" => load_step.pc \in {"refine", "search"}
      ]_vars

\* A load during which the search asked for the image address, got
\* LLDB_INVALID_ADDRESS, and returned a kernel address other than the one the
\* sweep had found.
C26_Witness ==
    /\ load_step.pc = "done"
    /\ load_step.callback_calls = 1
    /\ load_step.callback_value = LLDB_INVALID_ADDRESS
    /\ load_step.saved_mach_kernel_addr = 4096
    /\ load_step.saved_user_dyld_addr = 8192
    /\ load_step.better_kernel_address = 8192
    /\ m_mach_kernel_addr = 8192
    /\ m_dyld_addr = 8192

-----------------------------------------------------------------------------
(* The queries and destroy on a session *)

Destroy == DoDestroy

Alive == IsAlive

WarnDetach == WarnBeforeDetach

NextQueries ==
    \/ LoadCore
    \/ Destroy
    \/ Alive
    \/ WarnDetach
    \/ Read
    \/ RegionQuery
    \/ ImageInfo
    \/ UpdateThreads
    \/ Return

SpecQueries == Init /\ [][NextQueries]_vars

\* The indices, the discovery state and the thread list.
SessionState ==
    << m_core_aranges, m_core_range_infos, m_dyld_addr, m_mach_kernel_addr,
       m_dyld_plugin_name, m_thread_list >>

\* What a read of size bytes at addr returns on the indices given.
ReadOutcome(aranges, addr, size) ==
    LET r == DoReadMemory(aranges, core_objfile, addr, size, NoError)
    IN  << r.bytes_read, r.buf, r.error >>

\* C27: destroy always returns success and, like read, the region query and
\* the image address query, leaves the indices, the discovery state and the
\* thread list as they were; is_alive returns true and warn_before_detach
\* false whenever they are called, which leave the state alone too; a read
\* returns after destroy what it returned before it.
C27_DestroyAndQueries ==
    [][/\ (Idle /\ result'.op = "destroy") =>
              /\ result'.error = NoError
              /\ \A addr \in ReadAddrs, size \in ReadSizes :
                     ReadOutcome(m_core_aranges', addr, size)
                         = ReadOutcome(m_core_aranges, addr, size)
       /\ (Idle /\ result'.op \in {"destroy", "read", "region", "image_info",
                                    "is_alive", "warn_before_detach"}) =>
              SessionState' = SessionState
       /\ (Idle /\ result'.op = "is_alive") => result'.ok
       /\ (Idle /\ result'.op = "warn_before_detach") => ~result'.ok
       /\ (Idle /\ result'.op = "read") =>
              << result'.bytes_read, result'.buf, result'.error >>
                  = ReadOutcome(m_core_aranges, result'.addr, result'.size)
      ]_vars

\* A read that returns bytes on a loaded session that has been destroyed and
\* has a thread list.
C27_Witness ==
    /\ destroyed
    /\ load_state = "loaded"
    /\ Len(m_thread_list) > 0
    /\ result.op = "read"
    /\ result.bytes_read > 0

\* is_alive is asked on a session that has been destroyed.
C27_WitnessAlive ==
    /\ destroyed
    /\ result.op = "is_alive"
    /\ result.ok

-----------------------------------------------------------------------------
(* The plug-in name and the image address after load *)

\* C29: at every point after load the loader plug-in name is that of the
\* plug-in whose image get_image_info_address() returns: the kernel plug-in
\* when it returns the kernel's address, the dyld plug-in when it returns
\* dyld's, whatever changes of the preference came after the load.
C29_PluginMatchesImageInfo ==
    (load_state = "loaded" /\ m_dyld_addr # m_mach_kernel_addr) =>
        /\ ImageInfoNow = m_mach_kernel_addr =>
               m_dyld_plugin_name = KernelPluginName
        /\ ImageInfoNow = m_dyld_addr =>
               m_dyld_plugin_name = DyldPluginName

-----------------------------------------------------------------------------
(* The 'source' commands: the calls the model is run on *)

File(directory, filename) == [directory |-> directory, filename |-> filename]

LineEntry(file, line) == [file |-> file, line |-> line]

SymbolContext(comp_unit, module, file, line) ==
    [comp_unit |-> comp_unit, module |-> module,
     line_entry |-> LineEntry(file, line)]

\* Line entries of two files in two modules, and a symbol context that has
\* no compile unit.
SymbolContextPool ==
    { SymbolContext(TRUE, 1, File(1, 1), 1),
      SymbolContext(TRUE, 1, File(1, 1), 2),
      SymbolContext(TRUE, 2, File(2, 2), 1),
      SymbolContext(TRUE, 1, File(2, 2), 3),
      SymbolContext(FALSE, 1, File(1, 1), 1) }

SymbolContextLists ==
    UNION { [1..n -> SymbolContextPool] : n \in 0..MaxContexts }

\* m_options and the two filters: no filter or one module, no file or a file
\* name without a directory, no line bound or line 2, no limit or a limit.
DumpOptions ==
    [module_list : { {}, {1} },
     file_spec : { NoFileSpec, File(0, 1) },
     start_line : { 0, 2 },
     end_line : { 0, 2 },
     num_lines : 0..MaxNumLines]

\* The addresses of the characters of two strings of the string pool.
StringAddresses == { 1, 2 }

SourceLines == { 1, 2 }

SourceInfos ==
    { [function |-> f, line_entry |-> LineEntry(File(d, n), l)] :
        f \in StringAddresses, d \in StringAddresses, n \in StringAddresses,
        l \in SourceLines }

InitSource ==
    /\ Constructed
    /\ NotRegistered
    /\ load_step = NotLoading
    /\ destroyed = FALSE
    /\ m_core_module_sp = FALSE
    /\ corefile_preference = "user"
    /\ core_objfile = ObjectFile(<< >>, 0, [o \in {} |-> NoHeader])
    /\ \/ \E options \in DumpOptions, sc_list \in SymbolContextLists :
              source_cmd = DumpCall(options, sc_list)
       \/ \E infos \in [1..3 -> SourceInfos] :
              source_cmd = CompareCall(infos)

NextSource == DumpLines \/ CompareSourceInfos

SpecSource == InitSource /\ [][NextSource]_vars

\* The line entries written to the stream.
LinesWritten(strm) ==
    Cardinality({ k \in 1..Len(strm) : strm[k].kind = "line" })

\* C28: when num_lines is above 0, DumpLinesInSymbolContexts writes at most
\* num_lines line entries and returns a count of at most num_lines, for
\* every list of symbol contexts.
C28_AtMostNumLines ==
    (source_cmd.op = "dumped" /\ source_cmd.options.num_lines > 0) =>
        /\ LinesWritten(source_cmd.strm) <= source_cmd.options.num_lines
        /\ source_cmd.num_matches <= source_cmd.options.num_lines

\* C30: operator < of SourceInfo is a strict weak ordering: no value is
\* below itself, of two values at most one is below the other, below is
\* transitive, and two values of which neither is below the other are the
\* values operator == holds of.
C30_StrictWeakOrdering ==
    source_cmd.op = "compared" =>
        \A i, j, k \in 1..3 :
            /\ ~source_cmd.less[i][i]
            /\ source_cmd.less[i][j] => ~source_cmd.less[j][i]
            /\ (source_cmd.less[i][j] /\ source_cmd.less[j][k]) =>
                   source_cmd.less[i][k]
            /\ (~source_cmd.less[i][j] /\ ~source_cmd.less[j][i])
                   <=> source_cmd.equal[i][j]

====
